---------------------------- MODULE Spec2Model ----------------------------
(***************************************************************************)
(* Model of the AdminSide Firebase service layer                           *)
(* (src/AdminSide/services/firebaseService.js): the tenancy cache, the     *)
(* session, and the per-entity record access services over the remote      *)
(* document store.                                                         *)
(* Further sections model vehiclesService.delete one await at a time      *)
(* (SpecDelete), the driver's trip modal and balance screen (SpecSettle,   *)
(* SpecBalance), the email service with its callable function (SpecEmail)  *)
(* the createAppUser function (SpecCreate), systemSettingsService          *)
(* (SpecSettings), a driver's trip submissions with the settings load of    *)
(* the modal (SpecTrip), the joined reads (SpecJoin), ensureOwnerAppUser    *)
(* against createAppUser (SpecEnsure) and the find-or-create calls of       *)
(* websiteContentService and galleryService (SpecFind); each has its own    *)
(* initial states and next-state relation over the same variables.          *)
(*                                                                         *)
(* A service call is one action: the handler runs from its first line to   *)
(* its return or throw.  The document store is the variable db; `last`     *)
(* records the call that has just completed (its arguments, the store it   *)
(* started from, the error it threw or the value it returned).             *)
(*                                                                         *)
(* Query results are sets of documents: orderBy is modelled by what it     *)
(* selects (only documents that carry the ordering field), not by the      *)
(* order of the returned list.                                             *)
(*                                                                         *)
(* The data given to add and update carries strings, numbers and booleans, *)
(* which toFirestore stores as they are (it converts Date values only).    *)
(***************************************************************************)
EXTENDS Integers, FiniteSets, Sequences, TLC

(* ------------------------------ bounds -------------------------------- *)

\* number of service calls in a behaviour
MaxCalls == 2

(* ----------------------------- universe ------------------------------- *)

Null == "null"                \* JavaScript null
Undefined == "undefined"      \* a field that the document does not carry

Owners == {"o1", "o2"}                    \* tenants (business accounts)
Users == {"o1", "a1", "d1"}               \* accounts that sign in on this device
Roles == {"owner", "admin", "driver"}


VARIABLES
    currentUser,        \* auth.currentUser: a uid, or Null
    effectiveOwnerId,   \* _effectiveOwnerId: the cached tenant id, or Null
    role,               \* _role: the cached role
    db,                 \* the document store: collection -> (id -> document data)
    now,                \* server clock: the next serverTimestamp()
    calls,              \* number of service calls made so far
    nextId,             \* the next generated document id
    last,               \* the service call that has just completed
    del,                \* a vehiclesService.delete between its awaits
    modal,              \* the DriverStatusModal: its inputs and what it submitted
    screen,             \* the DriverBalanceScreen: its state
    mail,               \* an EmailService.sendStatusUpdateEmail call and its remote call
    fn,                 \* the createAppUser cloud function: auth identities, last outcome
    find                \* the find-or-create calls of two sessions between their awaits

\* the session and the store
storeVars == <<currentUser, effectiveOwnerId, role, db, now, calls, nextId, last>>

\* the state of the components other than the session and the store
compVars == <<del, modal, screen, mail, fn, find>>

vars == <<currentUser, effectiveOwnerId, role, db, now, calls, nextId, last, compVars>>

\* the document ids a caller names: those of the collection and one that is in none
Ids(coll) == (DOMAIN db[coll]) \cup {nextId}

(* ------------------------- documents and fields ------------------------ *)

NoData == [k \in {} |-> Null]

\* obj[k] of JavaScript: the field's value, undefined when absent
Get(obj, k) == IF k \in DOMAIN obj THEN obj[k] ELSE Undefined

\* { ...a, ...b }: the fields of b override those of a
Spread(a, b) ==
    [k \in (DOMAIN a) \cup (DOMAIN b) |-> IF k \in DOMAIN b THEN b[k] ELSE a[k]]

\* fromFirestore(docSnap): { id, ...data }
fromFirestore(id, d) == Spread([id |-> id], d)

\* snapshot.docs.map(fromFirestore) for the documents `ids` of a collection
fromFirestoreList(coll, ids) == {fromFirestore(i, db[coll][i]) : i \in ids}

\* a where(field, "==", value) constraint
where(f, v) == [f |-> f, v |-> v]

\* getDocs(query(collection, ...where, orderBy(ord))): the ids of the documents
\* that satisfy every equality constraint and carry the ordering field
\* (ord = Null: no orderBy)
getDocs(coll, constraints, ord) ==
    {i \in DOMAIN db[coll] :
        /\ \A c \in constraints :
              c.f \in DOMAIN db[coll][i] /\ db[coll][i][c.f] = c.v
        /\ (ord # Null => ord \in DOMAIN db[coll][i])}

\* updateDoc(ref, { ...data, updated_at: serverTimestamp() }) on an existing document
updateDoc(coll, id, data) ==
    [db EXCEPT ![coll][id] = Spread(@, Spread(data, [updated_at |-> now]))]

\* addDoc(collection, { ...toFirestore(data), user_id: ownerId, created_at: serverTimestamp() })
addDoc(coll, data, ownerId) ==
    [db EXCEPT ![coll] =
        [i \in (DOMAIN @) \cup {nextId} |->
            IF i = nextId
            THEN Spread(data, [user_id |-> ownerId, created_at |-> now])
            ELSE @[i]]]

\* deleteDoc(ref) / a batch of deletes committed at once
deleteDocs(coll, ids) ==
    [db EXCEPT ![coll] = [i \in (DOMAIN @) \ ids |-> @[i]]]

(* ------------------------------ session -------------------------------- *)

\* requireUserId(): throws when nobody is signed in
requireUserIdThrows == currentUser = Null
requireUserId == currentUser

\* requireOwnerId() == _effectiveOwnerId || requireUserId()
requireOwnerIdThrows == effectiveOwnerId = Null /\ requireUserIdThrows
requireOwnerId == IF effectiveOwnerId # Null THEN effectiveOwnerId ELSE requireUserId

getRoleSync == role

ErrLogin == "User must be logged in"

\* getCurrentAppUser(): the app_users document of the signed-in user, or the
\* owner defaults when there is none
getCurrentAppUser ==
    IF currentUser \in DOMAIN db.app_users
    THEN fromFirestore(currentUser, db.app_users[currentUser])
    ELSE [id |-> currentUser, role |-> "owner", owner_uid |-> currentUser,
          status |-> "active"]

(* ------------------------- the completed call -------------------------- *)

Idle == [svc |-> "none", op |-> "idle", id |-> 0, key |-> Null, data |-> NoData,
         err |-> "", ret |-> {}, pre |-> db]

\* the call threw: nothing returned
Threw(svc, op, id, key, data, msg) ==
    [svc |-> svc, op |-> op, id |-> id, key |-> key, data |-> data,
     err |-> msg, ret |-> {}, pre |-> db]

\* the call returned `ret` (a set of documents; the empty set for null or nothing)
Returned(svc, op, id, key, data, ret) ==
    [svc |-> svc, op |-> op, id |-> id, key |-> key, data |-> data,
     err |-> "", ret |-> ret, pre |-> db]

\* the behaviours explored make at most MaxCalls service calls; the session
\* changes between them
CanCall == calls < MaxCalls

\* a read-only call completes
Read(l) ==
    /\ CanCall
    /\ last' = l
    /\ calls' = calls + 1
    /\ UNCHANGED <<currentUser, effectiveOwnerId, role, db, now, nextId, compVars>>

\* a call that writes the store (or throws) completes
Write(l, newdb, added) ==
    /\ CanCall
    /\ last' = l
    /\ db' = newdb
    /\ calls' = calls + 1
    /\ now' = IF newdb # db THEN now + 1 ELSE now
    /\ nextId' = IF added THEN nextId + 1 ELSE nextId
    /\ UNCHANGED <<currentUser, effectiveOwnerId, role, compVars>>

(* ------------------------------- auth ---------------------------------- *)

\* firebaseAuth.signInWithPassword
signInWithPassword(u) ==
    /\ CanCall
    /\ currentUser # u
    /\ currentUser' = u
    /\ last' = Idle
    /\ UNCHANGED <<effectiveOwnerId, role, db, now, calls, nextId, compVars>>

\* firebaseAuth.signOut
signOut ==
    /\ CanCall
    /\ currentUser # Null
    /\ currentUser' = Null
    /\ last' = Idle
    /\ UNCHANGED <<effectiveOwnerId, role, db, now, calls, nextId, compVars>>

\* setAuthCache(effectiveOwnerId, role)
setAuthCache(o, r) ==
    /\ CanCall
    /\ effectiveOwnerId' = o
    /\ role' = IF r = Null THEN "owner" ELSE r
    /\ last' = Idle
    /\ UNCHANGED <<currentUser, db, now, calls, nextId, compVars>>

\* after login the application caches the signed-in user's tenant and role
LoadAuthCache ==
    /\ currentUser # Null
    /\ <<effectiveOwnerId, role>> #
           <<getCurrentAppUser.owner_uid, getCurrentAppUser.role>>
    /\ setAuthCache(getCurrentAppUser.owner_uid, getCurrentAppUser.role)

\* on logout the application clears the cache
ClearAuthCache ==
    /\ <<effectiveOwnerId, role>> # <<Null, "owner">>
    /\ setAuthCache(Null, Null)

(* ------------------------------ vehicles ------------------------------- *)

VehicleData == {[make |-> "B"], [make |-> "B", user_id |-> "o2", created_at |-> 0]}

\* vehiclesQuery without its where("user_id", "==", ownerId) constraint
vehiclesQuery_AllTenants(ownerId) ==
    getDocs("vehicles", {}, "created_at")

vehiclesQuery(ownerId) ==
    getDocs("vehicles", {where("user_id", ownerId)}, "created_at")

vehiclesService_list ==
    IF requireOwnerIdThrows
    THEN Read(Threw("vehicles", "list", 0, Null, NoData, ErrLogin))
    ELSE Read(Returned("vehicles", "list", 0, Null, NoData,
                       fromFirestoreList("vehicles", vehiclesQuery(requireOwnerId))))

vehiclesService_add(data) ==
    IF requireOwnerIdThrows
    THEN Write(Threw("vehicles", "add", 0, Null, data, ErrLogin), db, FALSE)
    ELSE Write(Returned("vehicles", "add", nextId, Null, data, {[id |-> nextId]}),
               addDoc("vehicles", data, requireOwnerId), TRUE)

\* the error vehiclesService.update throws before writing, "" when it writes
vehiclesUpdateError(id) ==
    IF requireOwnerIdThrows THEN ErrLogin
    ELSE IF id \notin DOMAIN db.vehicles \/ db.vehicles[id].user_id # requireOwnerId
    THEN "Vehicle not found or access denied"
    ELSE ""

vehiclesService_update(id, data) ==
    IF vehiclesUpdateError(id) # ""
    THEN Write(Threw("vehicles", "update", id, Null, data, vehiclesUpdateError(id)), db, FALSE)
    ELSE Write(Returned("vehicles", "update", id, Null, data, {}),
               updateDoc("vehicles", id, data), FALSE)

\* the error vehiclesService.delete throws before writing, "" when it writes
vehiclesDeleteError(id) ==
    IF requireOwnerIdThrows THEN ErrLogin
    ELSE IF id \notin DOMAIN db.vehicles \/ db.vehicles[id].user_id # requireOwnerId
    THEN "Vehicle not found or access denied"
    ELSE ""

vehiclesService_delete(id) ==
    IF vehiclesDeleteError(id) # ""
    THEN Write(Threw("vehicles", "delete", id, Null, NoData, vehiclesDeleteError(id)), db, FALSE)
    ELSE Write(Returned("vehicles", "delete", id, Null, NoData, {}),
               [db EXCEPT
                  !.vehicle_variants =
                      [i \in (DOMAIN @) \
                             getDocs("vehicle_variants",
                                     {where("vehicle_id", id),
                                      where("user_id", requireOwnerId)}, Null)
                         |-> @[i]],
                  !.vehicles = [i \in (DOMAIN @) \ {id} |-> @[i]]],
               FALSE)

vehiclesService_getById(id) ==
    IF requireOwnerIdThrows
    THEN Read(Threw("vehicles", "getById", id, Null, NoData, ErrLogin))
    ELSE IF id \notin DOMAIN db.vehicles \/ db.vehicles[id].user_id # requireOwnerId
    THEN Read(Returned("vehicles", "getById", id, Null, NoData, {}))
    ELSE Read(Returned("vehicles", "getById", id, Null, NoData,
                       {fromFirestore(id, db.vehicles[id])}))

(* -------------------------- vehicle variants --------------------------- *)

VariantAddData ==
    {[vehicle_id |-> 1, color |-> "blue", available_quantity |-> 1, total_quantity |-> 2],
     [vehicle_id |-> 1, color |-> "blue", available_quantity |-> 0, total_quantity |-> -1],
     [vehicle_id |-> 1, color |-> "blue"]}

VariantUpdateData ==
    {[total_quantity |-> 0], [user_id |-> "o2"]}

Deltas == {-3, 1, 3}

Max(a, b) == IF a >= b THEN a ELSE b
Min(a, b) == IF a <= b THEN a ELSE b

variantsQuery(ownerId) ==
    getDocs("vehicle_variants", {where("user_id", ownerId)}, "color")

variantsService_list ==
    IF requireOwnerIdThrows
    THEN Read(Threw("variants", "list", 0, Null, NoData, ErrLogin))
    ELSE Read(Returned("variants", "list", 0, Null, NoData,
                       fromFirestoreList("vehicle_variants", variantsQuery(requireOwnerId))))

variantsService_add(data) ==
    IF requireOwnerIdThrows
    THEN Write(Threw("variants", "add", 0, Null, data, ErrLogin), db, FALSE)
    ELSE Write(Returned("variants", "add", nextId, Null, data, {[id |-> nextId]}),
               addDoc("vehicle_variants", data, requireOwnerId), TRUE)

\* the error variantsService.update throws before writing, "" when it writes
variantsUpdateError(id) ==
    IF requireOwnerIdThrows THEN ErrLogin
    ELSE IF id \notin DOMAIN db.vehicle_variants
            \/ db.vehicle_variants[id].user_id # requireOwnerId
    THEN "Variant not found or access denied"
    ELSE ""

variantsService_update(id, data) ==
    IF variantsUpdateError(id) # ""
    THEN Write(Threw("variants", "update", id, Null, data, variantsUpdateError(id)), db, FALSE)
    ELSE Write(Returned("variants", "update", id, Null, data, {}),
               updateDoc("vehicle_variants", id, data), FALSE)

\* no session check and no tenant check: the document, or null
variantsService_getById(id) ==
    IF id \notin DOMAIN db.vehicle_variants
    THEN Read(Returned("variants", "getById", id, Null, NoData, {}))
    ELSE Read(Returned("variants", "getById", id, Null, NoData,
                       {fromFirestore(id, db.vehicle_variants[id])}))

\* Math.max(0, Math.min((v.available_quantity ?? 0) + change, v.total_quantity ?? 1))
adjustedQuantity(v, change) ==
    LET avail == (IF "available_quantity" \in DOMAIN v THEN v.available_quantity ELSE 0)
                 + change
        total == IF "total_quantity" \in DOMAIN v THEN v.total_quantity ELSE 1
    IN  Max(0, Min(avail, total))

\* the error variantsService.adjustQuantity throws before writing, "" when it writes
variantsAdjustQuantityError(variantId) ==
    IF variantId \notin DOMAIN db.vehicle_variants THEN "Variant not found"
    ELSE IF requireOwnerIdThrows THEN ErrLogin
    ELSE IF db.vehicle_variants[variantId].user_id # requireOwnerId THEN "Access denied"
    ELSE ""

variantsService_adjustQuantity(variantId, change) ==
    IF variantsAdjustQuantityError(variantId) # ""
    THEN Write(Threw("variants", "adjustQuantity", variantId, Null, [change |-> change],
                     variantsAdjustQuantityError(variantId)), db, FALSE)
    ELSE Write(Returned("variants", "adjustQuantity", variantId, Null,
                        [change |-> change], {}),
               [db EXCEPT !.vehicle_variants[variantId] =
                   Spread(@, [available_quantity |-> adjustedQuantity(@, change),
                              updated_at |-> now])],
               FALSE)

(* ------------------------------ bookings ------------------------------- *)

BookingAddData == {[status |-> "pending"]}

BookingUpdateData ==
    {[status |-> "confirmed", assigned_driver_id |-> "d1"], [user_id |-> "o2"]}

\* bookingsQuery without the driver's where("assigned_driver_id", "==", uid) constraint
bookingsQuery_NoDriverFilter(ownerId) ==
    getDocs("bookings", {where("user_id", ownerId)}, "created_at")

\* the constraints of bookingsService.list / subscribe
bookingsQuery(ownerId) ==
    getDocs("bookings",
            {where("user_id", ownerId)} \cup
            (IF getRoleSync = "driver"
             THEN {where("assigned_driver_id", requireUserId)} ELSE {}),
            "created_at")

\* with the driver constraint the query also calls requireUserId()
bookingsQueryThrows ==
    requireOwnerIdThrows \/ (getRoleSync = "driver" /\ requireUserIdThrows)

bookingsService_list ==
    IF bookingsQueryThrows
    THEN Read(Threw("bookings", "list", 0, Null, NoData, ErrLogin))
    ELSE Read(Returned("bookings", "list", 0, Null, NoData,
                       fromFirestoreList("bookings", bookingsQuery(requireOwnerId))))

bookingsService_subscribe ==
    IF bookingsQueryThrows
    THEN Read(Threw("bookings", "subscribe", 0, Null, NoData, ErrLogin))
    ELSE Read(Returned("bookings", "subscribe", 0, Null, NoData,
                       fromFirestoreList("bookings", bookingsQuery(requireOwnerId))))

bookingsService_add(data) ==
    IF requireOwnerIdThrows
    THEN Write(Threw("bookings", "add", 0, Null, data, ErrLogin), db, FALSE)
    ELSE Write(Returned("bookings", "add", nextId, Null, data, {[id |-> nextId]}),
               addDoc("bookings", data, requireOwnerId), TRUE)

\* bookingsUpdateError without the check that a driver is the assigned driver
bookingsUpdateError_NoDriverCheck(id) ==
    IF requireOwnerIdThrows \/ requireUserIdThrows THEN ErrLogin
    ELSE IF id \notin DOMAIN db.bookings THEN "Booking not found"
    ELSE IF db.bookings[id].user_id # requireOwnerId THEN "Access denied"
    ELSE ""

\* the error bookingsService.update throws before writing, "" when it writes
bookingsUpdateError(id) ==
    IF requireOwnerIdThrows \/ requireUserIdThrows THEN ErrLogin
    ELSE IF id \notin DOMAIN db.bookings THEN "Booking not found"
    ELSE IF db.bookings[id].user_id # requireOwnerId THEN "Access denied"
    ELSE IF getRoleSync = "driver"
            /\ Get(db.bookings[id], "assigned_driver_id") # requireUserId
    THEN "Access denied"
    ELSE ""

bookingsService_update(id, data) ==
    IF bookingsUpdateError(id) # ""
    THEN Write(Threw("bookings", "update", id, Null, data, bookingsUpdateError(id)),
               db, FALSE)
    ELSE Write(Returned("bookings", "update", id, Null, data, {}),
               updateDoc("bookings", id, data), FALSE)

\* the error bookingsService.delete throws before deleting, "" when it deletes
bookingsDeleteError(id) ==
    IF requireOwnerIdThrows THEN ErrLogin
    ELSE IF id \notin DOMAIN db.bookings \/ db.bookings[id].user_id # requireOwnerId
    THEN "Booking not found or access denied"
    ELSE ""

bookingsService_delete(id) ==
    IF bookingsDeleteError(id) # ""
    THEN Write(Threw("bookings", "delete", id, Null, NoData, bookingsDeleteError(id)),
               db, FALSE)
    ELSE Write(Returned("bookings", "delete", id, Null, NoData, {}),
               deleteDocs("bookings", {id}), FALSE)

bookingsService_getById(id) ==
    IF id \notin DOMAIN db.bookings
    THEN Read(Returned("bookings", "getById", id, Null, NoData, {}))
    ELSE IF requireOwnerIdThrows
    THEN Read(Threw("bookings", "getById", id, Null, NoData, ErrLogin))
    ELSE IF db.bookings[id].user_id # requireOwnerId
    THEN Read(Returned("bookings", "getById", id, Null, NoData, {}))
    ELSE IF getRoleSync = "driver" /\ requireUserIdThrows
    THEN Read(Threw("bookings", "getById", id, Null, NoData, ErrLogin))
    ELSE IF getRoleSync = "driver"
            /\ Get(db.bookings[id], "assigned_driver_id") # requireUserId
    THEN Read(Returned("bookings", "getById", id, Null, NoData, {}))
    ELSE Read(Returned("bookings", "getById", id, Null, NoData,
                       {fromFirestore(id, db.bookings[id])}))

(* ----------------------------- car owners ------------------------------ *)

CarOwnerAddData == {[name |-> "n", status |-> "active"]}

CarOwnerUpdateData == {[status |-> "inactive"]}

carOwnersQuery(ownerId) ==
    getDocs("car_owners", {where("user_id", ownerId), where("status", "active")}, "name")

carOwnersService_list ==
    IF requireOwnerIdThrows
    THEN Read(Threw("carOwners", "list", 0, Null, NoData, ErrLogin))
    ELSE Read(Returned("carOwners", "list", 0, Null, NoData,
                       fromFirestoreList("car_owners", carOwnersQuery(requireOwnerId))))

carOwnersService_add(data) ==
    IF requireOwnerIdThrows
    THEN Write(Threw("carOwners", "add", 0, Null, data, ErrLogin), db, FALSE)
    ELSE Write(Returned("carOwners", "add", nextId, Null, data, {[id |-> nextId]}),
               addDoc("car_owners", data, requireOwnerId), TRUE)

\* the error carOwnersService.update throws before writing, "" when it writes
carOwnersUpdateError(id) ==
    IF requireOwnerIdThrows THEN ErrLogin
    ELSE IF id \notin DOMAIN db.car_owners \/ db.car_owners[id].user_id # requireOwnerId
    THEN "Car owner not found or access denied"
    ELSE ""

carOwnersService_update(id, data) ==
    IF carOwnersUpdateError(id) # ""
    THEN Write(Threw("carOwners", "update", id, Null, data, carOwnersUpdateError(id)), db, FALSE)
    ELSE Write(Returned("carOwners", "update", id, Null, data, {}),
               updateDoc("car_owners", id, data), FALSE)

\* the error carOwnersService.delete throws before writing, "" when it writes
carOwnersDeleteError(id) ==
    IF requireOwnerIdThrows THEN ErrLogin
    ELSE IF id \notin DOMAIN db.car_owners \/ db.car_owners[id].user_id # requireOwnerId
    THEN "Car owner not found or access denied"
    ELSE ""

carOwnersService_delete(id) ==
    IF carOwnersDeleteError(id) # ""
    THEN Write(Threw("carOwners", "delete", id, Null, NoData, carOwnersDeleteError(id)), db, FALSE)
    ELSE Write(Returned("carOwners", "delete", id, Null, NoData, {}),
               deleteDocs("car_owners", {id}), FALSE)

carOwnersService_getById(id) ==
    IF id \notin DOMAIN db.car_owners
    THEN Read(Returned("carOwners", "getById", id, Null, NoData, {}))
    ELSE IF requireOwnerIdThrows
    THEN Read(Threw("carOwners", "getById", id, Null, NoData, ErrLogin))
    ELSE IF db.car_owners[id].user_id # requireOwnerId
    THEN Read(Returned("carOwners", "getById", id, Null, NoData, {}))
    ELSE Read(Returned("carOwners", "getById", id, Null, NoData,
                       {fromFirestore(id, db.car_owners[id])}))

(* ---------------------------- notifications ---------------------------- *)

NotificationAddData == {[read |-> FALSE, dismissed |-> FALSE]}

NotificationUpdateData == {[read |-> TRUE]}

notificationsQuery(ownerId) ==
    getDocs("notifications", {where("user_id", ownerId)}, "created_at")

notificationsService_list ==
    IF requireOwnerIdThrows
    THEN Read(Threw("notifications", "list", 0, Null, NoData, ErrLogin))
    ELSE Read(Returned("notifications", "list", 0, Null, NoData,
                       fromFirestoreList("notifications",
                                         notificationsQuery(requireOwnerId))))

notificationsService_add(data) ==
    IF requireOwnerIdThrows
    THEN Write(Threw("notifications", "add", 0, Null, data, ErrLogin), db, FALSE)
    ELSE Write(Returned("notifications", "add", nextId, Null, data, {[id |-> nextId]}),
               addDoc("notifications", data, requireOwnerId), TRUE)

\* the error notificationsService.update throws before writing, "" when it writes
notificationsUpdateError(id) ==
    IF requireOwnerIdThrows THEN ErrLogin
    ELSE IF id \notin DOMAIN db.notifications
            \/ db.notifications[id].user_id # requireOwnerId
    THEN "Notification not found or access denied"
    ELSE ""

notificationsService_update(id, data) ==
    IF notificationsUpdateError(id) # ""
    THEN Write(Threw("notifications", "update", id, Null, data, notificationsUpdateError(id)), db, FALSE)
    ELSE Write(Returned("notifications", "update", id, Null, data, {}),
               updateDoc("notifications", id, data), FALSE)

(* ------------------------------ app users ------------------------------ *)

\* the uids a caller names: a user of tenant o1, another tenant, nobody
Uids == {"d1", "o2", "zz"}

AppUserUpdateData == {[status |-> "disabled"], [role |-> "owner"]}

\* no session check: the document, or null
appUsersService_getByUid(uid) ==
    IF uid \notin DOMAIN db.app_users
    THEN Read(Returned("appUsers", "getByUid", 0, uid, NoData, {}))
    ELSE Read(Returned("appUsers", "getByUid", 0, uid, NoData,
                       {fromFirestore(uid, db.app_users[uid])}))

\* the error appUsersService.update throws before writing, "" when it writes
appUsersUpdateError(uid) ==
    IF requireOwnerIdThrows THEN ErrLogin
    ELSE IF getRoleSync # "owner" THEN "Only Owner can update users"
    ELSE IF uid \notin DOMAIN db.app_users THEN "User not found"
    ELSE IF db.app_users[uid].owner_uid # requireOwnerId THEN "Access denied"
    ELSE ""

appUsersService_update(uid, data) ==
    IF appUsersUpdateError(uid) # ""
    THEN Write(Threw("appUsers", "update", 0, uid, data, appUsersUpdateError(uid)),
               db, FALSE)
    ELSE Write(Returned("appUsers", "update", 0, uid, data, {}),
               updateDoc("app_users", uid, data), FALSE)

(* ---------------------------- initial state ---------------------------- *)

SeedDb ==
    [vehicles |->
        (1 :> [user_id |-> "o1", make |-> "A", created_at |-> 0] @@
         2 :> [user_id |-> "o2", make |-> "A", created_at |-> 0]),
     vehicle_variants |->
        (1 :> [user_id |-> "o1", vehicle_id |-> 1, color |-> "red",
               available_quantity |-> 1, total_quantity |-> 2, created_at |-> 0] @@
         2 :> [user_id |-> "o2", vehicle_id |-> 2, color |-> "red",
               available_quantity |-> 1, total_quantity |-> 2, created_at |-> 0]),
     bookings |->
        (1 :> [user_id |-> "o1", status |-> "pending", assigned_driver_id |-> "d1",
               created_at |-> 0] @@
         2 :> [user_id |-> "o1", status |-> "pending", created_at |-> 0] @@
         3 :> [user_id |-> "o2", status |-> "pending", assigned_driver_id |-> "d1",
               created_at |-> 0]),
     car_owners |->
        (1 :> [user_id |-> "o1", name |-> "n", status |-> "active", created_at |-> 0] @@
         2 :> [user_id |-> "o2", name |-> "n", status |-> "active", created_at |-> 0]),
     notifications |->
        (1 :> [user_id |-> "o1", read |-> FALSE, dismissed |-> FALSE, created_at |-> 0] @@
         2 :> [user_id |-> "o2", read |-> FALSE, dismissed |-> FALSE, created_at |-> 0]),
     app_users |->
        ("o1" :> [role |-> "owner", owner_uid |-> "o1", status |-> "active"] @@
         "o2" :> [role |-> "owner", owner_uid |-> "o2", status |-> "active"] @@
         "a1" :> [role |-> "admin", owner_uid |-> "o1", status |-> "active"] @@
         "d1" :> [role |-> "driver", owner_uid |-> "o1", status |-> "active"]),
     system_settings |->
        ("o2" :> [fuel_price_per_liter |-> 50, delay_fee_per_hour |-> 80, updated_at |-> 0])]

\* no vehiclesService.delete is in progress
NoDelete ==
    [pc |-> "idle", id |-> 0, ownerId |-> Null, refs |-> {}, pre |-> SeedDb, at |-> 0]

\* the DriverStatusModal is not shown
NoModal ==
    [visible |-> FALSE, mode |-> "ongoing", booking |-> NoData,
     startFuel |-> <<>>, paymentAtStart |-> <<>>, endFuel |-> <<>>, paymentAtEnd |-> <<>>,
     settings |-> [fuel_price_per_liter |-> 0, delay_fee_per_hour |-> 0],
     get |-> "none", clock |-> 0, alert |-> FALSE, submitted |-> <<>>]

\* EmailService.sendStatusUpdateEmail has not been called
NoMail ==
    [pc |-> "idle", booking |-> NoData, newStatus |-> "", emailData |-> NoData,
     invocations |-> 0, response |-> NoData, result |-> NoData, threw |-> FALSE,
     sent |-> {}]

\* the auth identities of the accounts (uid -> email); createAppUser has not been called
NoFunctionCall ==
    [identities |-> ("o1" :> "o1@x" @@ "o2" :> "o2@x" @@ "a1" :> "a1@x" @@ "d1" :> "d1@x"),
     code |-> "none", data |-> NoData, auth |-> Null, count |-> 0,
     preIdentities |-> {}, preUsers |-> SeedDb.app_users,
     pc |-> "idle", uid |-> Null, written |-> <<>>,
     ensure |-> [pc |-> "idle", uid |-> Null], ensureWrote |-> {}]

\* no find-or-create call is in flight in either session
FindSessions == {"s1", "s2"}

NoFind ==
    [calls |-> 0,
     at |-> [s \in FindSessions |->
                [pc |-> "idle", op |-> "none", section |-> "", existing |-> 0]]]

\* the DriverBalanceScreen is not mounted
NoScreen == [loading |-> TRUE, bookings |-> <<>>, list |-> <<>>, fails |-> FALSE]

Init ==
    /\ del = NoDelete
    /\ modal = NoModal
    /\ screen = NoScreen
    /\ mail = NoMail
    /\ fn = NoFunctionCall
    /\ find = NoFind
    /\ currentUser = Null
    /\ effectiveOwnerId = Null
    /\ role = "owner"
    /\ db = SeedDb
    /\ now = 1
    /\ calls = 0
    /\ nextId = 4
    /\ last = [svc |-> "none", op |-> "idle", id |-> 0, key |-> Null, data |-> NoData,
               err |-> "", ret |-> {}, pre |-> SeedDb]

Next ==
    \/ \E u \in Users : signInWithPassword(u)
    \/ signOut
    \/ LoadAuthCache
    \/ ClearAuthCache
    \/ vehiclesService_list
    \/ \E data \in VehicleData : vehiclesService_add(data)
    \/ \E id \in Ids("vehicles"), data \in VehicleData : vehiclesService_update(id, data)
    \/ \E id \in Ids("vehicles") : vehiclesService_delete(id)
    \/ \E id \in Ids("vehicles") : vehiclesService_getById(id)
    \/ variantsService_list
    \/ \E data \in VariantAddData : variantsService_add(data)
    \/ \E id \in Ids("vehicle_variants"), data \in VariantUpdateData : variantsService_update(id, data)
    \/ \E id \in Ids("vehicle_variants") : variantsService_getById(id)
    \/ \E id \in Ids("vehicle_variants"), change \in Deltas : variantsService_adjustQuantity(id, change)
    \/ bookingsService_list
    \/ bookingsService_subscribe
    \/ \E data \in BookingAddData : bookingsService_add(data)
    \/ \E id \in Ids("bookings"), data \in BookingUpdateData : bookingsService_update(id, data)
    \/ \E id \in Ids("bookings") : bookingsService_delete(id)
    \/ \E id \in Ids("bookings") : bookingsService_getById(id)
    \/ carOwnersService_list
    \/ \E data \in CarOwnerAddData : carOwnersService_add(data)
    \/ \E id \in Ids("car_owners"), data \in CarOwnerUpdateData : carOwnersService_update(id, data)
    \/ \E id \in Ids("car_owners") : carOwnersService_delete(id)
    \/ \E id \in Ids("car_owners") : carOwnersService_getById(id)
    \/ notificationsService_list
    \/ \E data \in NotificationAddData : notificationsService_add(data)
    \/ \E id \in Ids("notifications"), data \in NotificationUpdateData : notificationsService_update(id, data)
    \/ \E uid \in Uids : appUsersService_getByUid(uid)
    \/ \E uid \in Uids, data \in AppUserUpdateData :
           appUsersService_update(uid, data)

Spec == Init /\ [][Next]_vars

(* ============ vehiclesService.delete, one await at a time ============== *)
(* The handler awaits the vehicle document, then the variant query, then   *)
(* the batch commit; between two awaits other sessions of the store run.   *)
(* Here each await is a step, and a session on another device adds         *)
(* variants meanwhile.  A remote read or commit can also fail (network,    *)
(* backend), which rejects the await and ends the handler.                 *)

\* variants another session adds in a behaviour
MaxAdds == 2

\* batchCommit when the deletes are written one after the other and the write
\* of the vehicle document fails
batchCommit_VariantsOnly(id, refs) ==
    [db EXCEPT !.vehicle_variants = [i \in (DOMAIN @) \ refs |-> @[i]]]

\* batch.commit(): the collected variant documents and the vehicle document
\* are deleted in one atomic write
batchCommit(id, refs) ==
    [db EXCEPT !.vehicle_variants = [i \in (DOMAIN @) \ refs |-> @[i]],
               !.vehicles = [i \in (DOMAIN @) \ {id} |-> @[i]]]

\* the handler ends at server time `now`: the awaiting caller gets the result
deleteEnds(pc, l, newdb) ==
    /\ del' = [del EXCEPT !.pc = pc, !.at = now]
    /\ last' = l
    /\ db' = newdb
    /\ now' = IF newdb # db THEN now + 1 ELSE now
    /\ UNCHANGED <<currentUser, effectiveOwnerId, role, calls, nextId, modal, screen, mail, fn, find>>

\* requireOwnerId(), getDoc(d) and the ownership check
vehiclesDelete_getDoc(id, ok) ==
    /\ del.pc = "idle"
    /\ LET d == [pc |-> "getDocs", id |-> id, ownerId |-> Null, refs |-> {}, pre |-> db,
                 at |-> 0]
       IN  IF ~ok /\ ~requireOwnerIdThrows
           THEN /\ del' = [d EXCEPT !.pc = "threw"]
                /\ last' = Threw("vehicles", "delete", id, Null, NoData, "unavailable")
           ELSE IF vehiclesDeleteError(id) # ""
           THEN /\ del' = [d EXCEPT !.pc = "threw"]
                /\ last' = Threw("vehicles", "delete", id, Null, NoData,
                                 vehiclesDeleteError(id))
           ELSE /\ del' = [d EXCEPT !.ownerId = requireOwnerId]
                /\ UNCHANGED last
    /\ UNCHANGED <<currentUser, effectiveOwnerId, role, db, now, calls, nextId, modal, screen, mail, fn, find>>

\* getDocs(vq): the variants of the vehicle that belong to the tenant
vehiclesDelete_getDocs(ok) ==
    /\ del.pc = "getDocs"
    /\ IF ok
       THEN /\ del' = [del EXCEPT
                          !.pc = "commit",
                          !.refs = getDocs("vehicle_variants",
                                           {where("vehicle_id", del.id),
                                            where("user_id", del.ownerId)}, Null)]
            /\ UNCHANGED <<currentUser, effectiveOwnerId, role, db, now, calls,
                           nextId, last, modal, screen, mail, fn, find>>
       ELSE deleteEnds("threw",
                       [Threw("vehicles", "delete", del.id, Null, NoData, "unavailable")
                           EXCEPT !.pre = del.pre],
                       db)

\* batch.commit()
vehiclesDelete_commit(ok) ==
    /\ del.pc = "commit"
    /\ IF ok
       THEN deleteEnds("done",
                       [Returned("vehicles", "delete", del.id, Null, NoData, {})
                           EXCEPT !.pre = del.pre],
                       batchCommit(del.id, del.refs))
       ELSE deleteEnds("threw",
                       [Threw("vehicles", "delete", del.id, Null, NoData, "unavailable")
                           EXCEPT !.pre = del.pre],
                       db)

\* variantsService.add in a session of tenant ownerId on another device
otherSession_variantsService_add(ownerId, data) ==
    /\ nextId < 4 + MaxAdds
    /\ db' = addDoc("vehicle_variants", data, ownerId)
    /\ now' = now + 1
    /\ nextId' = nextId + 1
    /\ UNCHANGED <<currentUser, effectiveOwnerId, role, calls, last, del, modal, screen, mail, fn, find>>

\* a session of this device: a signed-in user with the cache loaded for them,
\* or not loaded yet
InitDelete ==
    /\ currentUser \in Users
    /\ \/ effectiveOwnerId = Null /\ role = "owner"
       \/ /\ effectiveOwnerId = SeedDb.app_users[currentUser].owner_uid
          /\ role = SeedDb.app_users[currentUser].role
    /\ db = SeedDb
    /\ now = 1
    /\ calls = 0
    /\ nextId = 4
    /\ last = [svc |-> "none", op |-> "idle", id |-> 0, key |-> Null, data |-> NoData,
               err |-> "", ret |-> {}, pre |-> SeedDb]
    /\ del = NoDelete
    /\ modal = NoModal
    /\ screen = NoScreen
    /\ mail = NoMail
    /\ fn = NoFunctionCall
    /\ find = NoFind

NextDelete ==
    \/ \E id \in Ids("vehicles"), ok \in BOOLEAN : vehiclesDelete_getDoc(id, ok)
    \/ \E ok \in BOOLEAN : vehiclesDelete_getDocs(ok)
    \/ \E ok \in BOOLEAN : vehiclesDelete_commit(ok)
    \/ \E ownerId \in Owners, data \in VariantAddData :
           otherSession_variantsService_add(ownerId, data)

SpecDelete == InitDelete /\ [][NextDelete]_vars


(* ===================== DriverStatusModal.handleSubmit =================== *)
(* The modal's text inputs are sequences of characters; numbers are read   *)
(* out of them as parseFloat does.  A JavaScript number is a record: NaN,  *)
(* or a value.  Quantities of time are milliseconds; a quotient is an      *)
(* exact fraction n/d in lowest terms.  The texts are written with digits, *)
(* the minus sign, the space and a letter (no decimal point).              *)

\* longest text typed into an input
MaxText == 2

Digits == {"0", "1", "2", "3", "4", "5", "6", "7", "8", "9"}
Chars == {"0", "3", "5", " ", "-", "x"}
Texts == UNION {[1..n -> Chars] : n \in 0..MaxText}

NaN == [nan |-> TRUE, v |-> 0]
Num(v) == [nan |-> FALSE, v |-> v]

\* x || 0 for a number x: NaN and 0 are falsy
OrZero(x) == IF x.nan \/ x.v = 0 THEN 0 ELSE x.v

\* Number(obj.k): NaN for a missing field
Number(obj, k) == IF k \in DOMAIN obj THEN Num(obj[k]) ELSE NaN

DigitValue(c) ==
    CASE c = "0" -> 0 [] c = "1" -> 1 [] c = "2" -> 2 [] c = "3" -> 3 [] c = "4" -> 4
      [] c = "5" -> 5 [] c = "6" -> 6 [] c = "7" -> 7 [] c = "8" -> 8 [] c = "9" -> 9

RECURSIVE trimStart(_)
trimStart(t) == IF t # <<>> /\ Head(t) = " " THEN trimStart(Tail(t)) ELSE t

RECURSIVE trimEnd(_)
trimEnd(t) ==
    IF t # <<>> /\ t[Len(t)] = " " THEN trimEnd(SubSeq(t, 1, Len(t) - 1)) ELSE t

\* String.prototype.trim
trim(t) == trimEnd(trimStart(t))

\* the value and the length of the longest prefix of t made of digits
RECURSIVE leadingDigits(_, _, _)
leadingDigits(t, v, len) ==
    IF t # <<>> /\ Head(t) \in Digits
    THEN leadingDigits(Tail(t), 10 * v + DigitValue(Head(t)), len + 1)
    ELSE [v |-> v, len |-> len]

\* parseFloat(text): leading white space is skipped, then an optional sign and
\* the digits are read; what follows them is ignored; NaN when there is no digit
parseFloat(t) ==
    LET u == trimStart(t)
        neg == u # <<>> /\ Head(u) = "-"
        r == leadingDigits(IF neg THEN Tail(u) ELSE u, 0, 0)
    IN  IF r.len = 0 THEN NaN ELSE Num(IF neg THEN 0 - r.v ELSE r.v)

\* 1000 * 60 * 60
MsPerHour == 3600000

RECURSIVE GCD(_, _)
GCD(a, b) == IF b = 0 THEN a ELSE GCD(b, a % b)

\* the quotient a / b of two numbers (a >= 0, b > 0), exactly
Quotient(a, b) == [n |-> a \div GCD(a, b), d |-> b \div GCD(a, b)]

\* the product of a quotient and a whole number
Times(q, k) == Quotient(q.n * k, q.d)

\* new Date(v) of a stored date: the instant it denotes, in milliseconds
NewDate(v) == v.ms

\* fuelCharge without the test of fuelUsed
fuelCharge_Signed(startF, endF, fuelPrice) == (startF - endF) * fuelPrice

\* fuelUsed > 0 ? fuelUsed * fuelPrice : 0
fuelCharge(startF, endF, fuelPrice) ==
    IF startF - endF > 0 THEN (startF - endF) * fuelPrice ELSE 0

\* delayHours rounded down to whole hours
delayHours_WholeHours(booking, actualReturn) ==
    IF "rental_end_date" \in DOMAIN booking
       /\ actualReturn > NewDate(booking.rental_end_date)
    THEN Quotient((actualReturn - NewDate(booking.rental_end_date)) \div MsPerHour, 1)
    ELSE Quotient(0, 1)

\* delayHours: 0, or (actualReturn - expectedReturn) / (1000 * 60 * 60) when an
\* expected return is recorded and the actual return is after it
delayHours(booking, actualReturn) ==
    IF "rental_end_date" \in DOMAIN booking
       /\ actualReturn > NewDate(booking.rental_end_date)
    THEN Quotient(actualReturn - NewDate(booking.rental_end_date), MsPerHour)
    ELSE Quotient(0, 1)

\* the object handleSubmit passes to onSubmit when a trip starts
ongoingPayload ==
    [status |-> "ongoing",
     start_time |-> modal.clock,
     start_fuel |-> OrZero(parseFloat(modal.startFuel)),
     payment_at_start |-> OrZero(parseFloat(modal.paymentAtStart)),
     driver_notes |-> Null]

\* the object handleSubmit passes to onSubmit when a trip is completed
completedPayload ==
    LET fuelPrice == OrZero(Number(modal.settings, "fuel_price_per_liter"))
        delayFeePerHour == OrZero(Number(modal.settings, "delay_fee_per_hour"))
        startF == OrZero(Number(modal.booking, "start_fuel"))
        endF == OrZero(parseFloat(modal.endFuel))
    IN  [status |-> "completed",
         end_time |-> modal.clock,
         end_fuel |-> endF,
         payment_at_end |-> OrZero(parseFloat(modal.paymentAtEnd)),
         driver_remarks |-> Null,
         fuel_charge |-> fuelCharge(startF, endF, fuelPrice),
         delay_fee |-> Times(delayHours(modal.booking, modal.clock), delayFeePerHour),
         delay_hours |-> delayHours(modal.booking, modal.clock)]

\* handleSubmit: a missing fuel level raises the alert and nothing is submitted;
\* otherwise the payload is submitted and the modal closes
handleSubmit ==
    /\ modal.visible
    /\ IF modal.mode = "ongoing"
       THEN IF trim(modal.startFuel) = <<>>
            THEN modal' = [modal EXCEPT !.alert = TRUE]
            ELSE modal' = [modal EXCEPT !.submitted = <<ongoingPayload>>,
                                        !.visible = FALSE]
       ELSE IF trim(modal.endFuel) = <<>>
            THEN modal' = [modal EXCEPT !.alert = TRUE]
            ELSE modal' = [modal EXCEPT !.submitted = <<completedPayload>>,
                                        !.visible = FALSE]
    /\ UNCHANGED <<storeVars, del, screen, mail, fn, find>>

\* Alert.alert's button: the alert is dismissed
dismissAlert ==
    /\ modal.alert
    /\ modal' = [modal EXCEPT !.alert = FALSE]
    /\ UNCHANGED <<storeVars, del, screen, mail, fn, find>>

\* the bookings a driver completes or starts: the fuel at the start recorded or not,
\* the expected return recorded or not
ModalBookings ==
    {[start_fuel |-> 45, rental_end_date |-> [ms |-> 10 * MsPerHour]],
     [start_fuel |-> 0, rental_end_date |-> [ms |-> 10 * MsPerHour]],
     [start_fuel |-> 45],
     [rental_end_date |-> [ms |-> 10 * MsPerHour]]}

\* the settings the modal holds: its defaults, or the tenant's record
ModalSettings ==
    {[fuel_price_per_liter |-> 0, delay_fee_per_hour |-> 0],
     [fuel_price_per_liter |-> 65, delay_fee_per_hour |-> 100],
     [fuel_price_per_liter |-> 65]}

\* the time of the submission: before, at and two hours and a half after the
\* expected return
ModalClocks == {9 * MsPerHour, 10 * MsPerHour, 10 * MsPerHour + 9000000}

\* the modal is shown in either mode with the inputs filled in
InitSettle ==
    /\ currentUser = "d1"
    /\ effectiveOwnerId = "o1"
    /\ role = "driver"
    /\ db = SeedDb
    /\ now = 1
    /\ calls = 0
    /\ nextId = 4
    /\ last = [svc |-> "none", op |-> "idle", id |-> 0, key |-> Null, data |-> NoData,
               err |-> "", ret |-> {}, pre |-> SeedDb]
    /\ del = NoDelete
    /\ screen = NoScreen
    /\ mail = NoMail
    /\ fn = NoFunctionCall
    /\ find = NoFind
    /\ \E mode \in {"ongoing", "completed"}, booking \in ModalBookings,
          fuel \in Texts, payment \in {<<>>, <<"5">>},
          settings \in ModalSettings, clock \in ModalClocks :
          modal = [visible |-> TRUE, mode |-> mode, booking |-> booking,
                   startFuel |-> IF mode = "ongoing" THEN fuel ELSE <<>>,
                   paymentAtStart |-> IF mode = "ongoing" THEN payment ELSE <<>>,
                   endFuel |-> IF mode = "ongoing" THEN <<>> ELSE fuel,
                   paymentAtEnd |-> IF mode = "ongoing" THEN <<>> ELSE payment,
                   settings |-> settings, get |-> "resolved", clock |-> clock,
                   alert |-> FALSE, submitted |-> <<>>]

NextSettle ==
    \/ handleSubmit
    \/ dismissAlert

SpecSettle == InitSettle /\ [][NextSettle]_vars

(* ========================= DriverBalanceScreen ========================== *)
(* The screen loads bookingsService.list() once and derives the balance    *)
(* from the bookings it holds.  The amounts on the listed bookings are     *)
(* whole numbers.                                                          *)

\* longest list of bookings loaded
MaxBookings == 3

\* completed = bookings.filter((b) => b.status === "completed"), for every status
completed_AnyStatus(bookings) == bookings

\* completed = bookings.filter((b) => b.status === "completed")
completed(bookings) == SelectSeq(bookings, LAMBDA b : b.status = "completed")

\* completed.reduce((sum, b) => sum + (Number(b.payment_at_start) || 0)
\*                                  + (Number(b.payment_at_end) || 0), 0)
RECURSIVE payments(_)
payments(bs) ==
    IF bs = <<>> THEN 0
    ELSE payments(SubSeq(bs, 1, Len(bs) - 1))
         + OrZero(Number(bs[Len(bs)], "payment_at_start"))
         + OrZero(Number(bs[Len(bs)], "payment_at_end"))

\* completed.reduce((sum, b) => sum + (Number(b.fuel_charge) || 0)
\*                                  + (Number(b.delay_fee) || 0), 0)
RECURSIVE deductions(_)
deductions(bs) ==
    IF bs = <<>> THEN 0
    ELSE deductions(SubSeq(bs, 1, Len(bs) - 1))
         + OrZero(Number(bs[Len(bs)], "fuel_charge"))
         + OrZero(Number(bs[Len(bs)], "delay_fee"))

\* netBalance = payments - deductions
netBalance == payments(completed(screen.bookings)) - deductions(completed(screen.bookings))

\* the effect's load(): the list resolves and is stored
load ==
    /\ screen.loading
    /\ ~screen.fails
    /\ screen' = [screen EXCEPT !.bookings = screen.list, !.loading = FALSE]
    /\ UNCHANGED <<storeVars, del, modal, mail, fn, find>>

\* the effect's load(): the list rejects, the error is logged
loadFails ==
    /\ screen.loading
    /\ screen.fails
    /\ screen' = [screen EXCEPT !.loading = FALSE]
    /\ UNCHANGED <<storeVars, del, modal, mail, fn, find>>

\* bookings that bookingsService.list() returns
ListedBookings ==
    {[status |-> "completed", payment_at_start |-> 1000, payment_at_end |-> 500,
      fuel_charge |-> 200, delay_fee |-> 0],
     [status |-> "completed", payment_at_start |-> 800, payment_at_end |-> 0,
      fuel_charge |-> 0, delay_fee |-> 100],
     [status |-> "completed", payment_at_end |-> 300, fuel_charge |-> 400],
     [status |-> "confirmed", payment_at_start |-> 700, payment_at_end |-> 0,
      fuel_charge |-> 50, delay_fee |-> 0],
     [status |-> "pending"]}

\* the screen is mounted; the list it will get is any list of the bookings
InitBalance ==
    /\ currentUser = "d1"
    /\ effectiveOwnerId = "o1"
    /\ role = "driver"
    /\ db = SeedDb
    /\ now = 1
    /\ calls = 0
    /\ nextId = 4
    /\ last = [svc |-> "none", op |-> "idle", id |-> 0, key |-> Null, data |-> NoData,
               err |-> "", ret |-> {}, pre |-> SeedDb]
    /\ del = NoDelete
    /\ modal = NoModal
    /\ mail = NoMail
    /\ fn = NoFunctionCall
    /\ find = NoFind
    /\ \E n \in 0..MaxBookings, fails \in BOOLEAN :
          \E list \in [1..n -> ListedBookings] :
              screen = [loading |-> TRUE, bookings |-> <<>>, list |-> list,
                        fails |-> fails]

NextBalance ==
    \/ load
    \/ loadFails

SpecBalance == InitBalance /\ [][NextBalance]_vars

(* =================== EmailService.sendStatusUpdateEmail ================= *)
(* The client builds the payload, validates it, awaits the callable        *)
(* function once and turns what comes back into its result.  The callable  *)
(* function is sendStatusUpdateEmail of functions/index.js; the call can   *)
(* also fail in transport, and the client accepts any result object.       *)
(* Of the payload, the fields that are only formatted into the message     *)
(* (vehicle, dates, place, price) are left out.  A decline reason is a     *)
(* sequence of characters.                                                 *)

\* a booking argument that is null
NullBooking == [isNull |-> TRUE]

\* what JavaScript treats as false among the values of a field
Falsy(x) == x \in {Undefined, Null, ""}

\* the emailData object
emailData(booking, newStatus) ==
    [customer_email |-> Get(booking, "customer_email"),
     customer_name |-> Get(booking, "customer_name"),
     bookingId |-> Get(booking, "id"),
     newStatus |-> newStatus,
     decline_reason |->
         IF newStatus = "declined"
         THEN IF "decline_reason" \in DOMAIN booking THEN booking.decline_reason ELSE <<>>
         ELSE <<>>,
     has_decline_reason |-> newStatus = "declined"]

\* the local validation, switched off
declineReasonMissing_Never(data) == FALSE

\* newStatus === "declined" && (!decline_reason || decline_reason.trim() === "")
declineReasonMissing(data) ==
    data.newStatus = "declined" /\ trim(data.decline_reason) = <<>>

\* the catch block, rethrowing
catch_Rethrow(message) == [threw |-> TRUE, result |-> NoData]

\* catch (error): { success: false, error: error?.message || "Email service unavailable" }
catch(message) ==
    [threw |-> FALSE,
     result |-> [success |-> FALSE,
                 error |-> IF message = "" THEN "Email service unavailable" ELSE message]]

\* the call up to its await: a booking that is no object makes the payload
\* construction throw; a missing decline reason returns; otherwise the callable
\* function is invoked
sendStatusUpdateEmail(booking, newStatus) ==
    /\ mail.pc = "idle"
    /\ LET m == [mail EXCEPT !.booking = booking, !.newStatus = newStatus]
       IN  IF booking = NullBooking
           THEN mail' = [m EXCEPT !.pc = "done",
                                  !.threw = catch("Cannot read properties of null").threw,
                                  !.result = catch("Cannot read properties of null").result]
           ELSE IF declineReasonMissing(emailData(booking, newStatus))
           THEN mail' = [m EXCEPT
                           !.pc = "done",
                           !.emailData = emailData(booking, newStatus),
                           !.result = [success |-> FALSE,
                                       error |-> "Decline reason is required when status is declined"]]
           ELSE mail' = [m EXCEPT !.pc = "awaiting",
                                  !.emailData = emailData(booking, newStatus),
                                  !.invocations = @ + 1]
    /\ UNCHANGED <<storeVars, del, modal, screen, fn, find>>

\* what the callable function answers to `data` from a caller with auth uid
\* `auth`, when sending the message succeeds (mailOk) or fails
functions_response(data, auth, mailOk) ==
    IF auth = Null
    THEN [rejected |-> TRUE, success |-> FALSE, error |-> "Not logged in"]
    ELSE IF Falsy(data.customer_email) \/ Falsy(data.customer_name)
            \/ Falsy(data.newStatus)
    THEN [rejected |-> TRUE, success |-> FALSE, error |-> "Missing required fields"]
    ELSE IF data.newStatus = "declined" /\ data.decline_reason = <<>>
    THEN [rejected |-> TRUE, success |-> FALSE, error |-> "Decline reason is required"]
    ELSE IF ~mailOk
    THEN [rejected |-> TRUE, success |-> FALSE, error |-> "sendMail failed"]
    ELSE [rejected |-> FALSE, success |-> TRUE, error |-> ""]

\* exports.sendStatusUpdateEmail runs in the cloud
functions_sendStatusUpdateEmail(mailOk) ==
    /\ mail.pc = "awaiting"
    /\ mail.response = NoData
    /\ mail' = [mail EXCEPT
                  !.response = functions_response(mail.emailData, currentUser, mailOk),
                  !.sent = IF functions_response(mail.emailData, currentUser, mailOk).success
                           THEN @ \cup {mail.emailData.newStatus} ELSE @]
    /\ UNCHANGED <<storeVars, del, modal, screen, fn, find>>

\* the call fails in transport, or a backend answers with a result that
\* carries no success
httpsCallable_settles(response) ==
    /\ mail.pc = "awaiting"
    /\ mail.response = NoData
    /\ mail' = [mail EXCEPT !.response = response]
    /\ UNCHANGED <<storeVars, del, modal, screen, fn, find>>

TransportResponses ==
    {[rejected |-> TRUE, success |-> FALSE, error |-> "network error"],
     [rejected |-> TRUE, success |-> FALSE, error |-> ""],
     [rejected |-> FALSE, success |-> FALSE, error |-> "quota"],
     [rejected |-> FALSE, success |-> FALSE, error |-> ""]}

\* the call after its await: the result object for the caller
sendStatusUpdateEmail_resumes ==
    /\ mail.pc = "awaiting"
    /\ mail.response # NoData
    /\ IF mail.response.rejected
       THEN mail' = [mail EXCEPT !.pc = "done",
                                 !.threw = catch(mail.response.error).threw,
                                 !.result = catch(mail.response.error).result]
       ELSE IF mail.response.success
       THEN mail' = [mail EXCEPT !.pc = "done",
                                 !.result = [success |-> TRUE,
                                             message |-> "Email sent successfully"]]
       ELSE mail' = [mail EXCEPT
                       !.pc = "done",
                       !.result = [success |-> FALSE,
                                   error |-> IF mail.response.error = ""
                                             THEN "Unknown error"
                                             ELSE mail.response.error]]
    /\ UNCHANGED <<storeVars, del, modal, screen, fn, find>>

\* the bookings whose status change is dispatched, and no booking
MailBookings ==
    {NullBooking,
     [id |-> 1, customer_email |-> "c@x", customer_name |-> "C"],
     [id |-> 1, customer_email |-> "c@x", customer_name |-> "C", decline_reason |-> <<>>],
     [id |-> 1, customer_email |-> "c@x", customer_name |-> "C", decline_reason |-> <<" ">>],
     [id |-> 1, customer_email |-> "c@x", customer_name |-> "C",
      decline_reason |-> <<"x", " ">>],
     [id |-> 1, customer_name |-> "C", decline_reason |-> <<"x">>]}

Statuses == {"pending", "confirmed", "completed", "cancelled", "declined"}

\* a session of an owner, or nobody signed in
InitEmail ==
    /\ currentUser \in {Null, "o1"}
    /\ effectiveOwnerId = currentUser
    /\ role = "owner"
    /\ db = SeedDb
    /\ now = 1
    /\ calls = 0
    /\ nextId = 4
    /\ last = [svc |-> "none", op |-> "idle", id |-> 0, key |-> Null, data |-> NoData,
               err |-> "", ret |-> {}, pre |-> SeedDb]
    /\ del = NoDelete
    /\ modal = NoModal
    /\ screen = NoScreen
    /\ mail = NoMail
    /\ fn = NoFunctionCall
    /\ find = NoFind

NextEmail ==
    \/ \E booking \in MailBookings, newStatus \in Statuses :
           sendStatusUpdateEmail(booking, newStatus)
    \/ \E mailOk \in BOOLEAN : functions_sendStatusUpdateEmail(mailOk)
    \/ \E response \in TransportResponses : httpsCallable_settles(response)
    \/ sendStatusUpdateEmail_resumes

SpecEmail == InitEmail /\ [][NextEmail]_vars

(* ===================== the createAppUser cloud function ================= *)
(* functions/index.js (the unnamed copy of the function has the same       *)
(* body).  A call is one action; creating the auth identity or writing the *)
(* app_users document can fail, which ends the call with `internal`.       *)

\* calls of createAppUser in a behaviour
MaxCreates == 2

\* the uids the auth service gives to new identities
NewUids == <<"n1", "n2", "n3">>

\* createAppUser's rejections with the payload validated first
createAppUserRejects_ValidateFirst(data, auth) ==
    IF Falsy(data.email) \/ Falsy(data.password) \/ Falsy(data.role)
    THEN "invalid-argument"
    ELSE IF auth = Null THEN "unauthenticated"
    ELSE ""

\* the HttpsError createAppUser throws before it writes, "" when it goes on
createAppUserRejects(data, auth) ==
    IF auth = Null THEN "unauthenticated"
    ELSE IF Falsy(data.email) \/ Falsy(data.password) \/ Falsy(data.role)
    THEN "invalid-argument"
    ELSE ""

\* the app_users document createAppUser writes
appUserDoc(data, ownerUid) ==
    [full_name |-> data.full_name,
     email |-> data.email,
     contact_number |-> IF Falsy(data.contact_number) THEN Null ELSE data.contact_number,
     role |-> data.role,
     status |-> IF Falsy(data.status) THEN "active" ELSE data.status,
     owner_uid |-> ownerUid,
     created_at |-> now]

\* exports.createAppUser called with `data` by the session of this device;
\* fail: the step that fails
createAppUser(data, fail) ==
    /\ fn.count < MaxCreates
    /\ LET auth == currentUser
           uid == NewUids[fn.count + 1]
           f == [fn EXCEPT !.data = data, !.auth = auth, !.count = @ + 1,
                           !.preIdentities = DOMAIN fn.identities,
                           !.preUsers = db.app_users]
           emailTaken == \E u \in DOMAIN fn.identities : fn.identities[u] = data.email
       IN  IF createAppUserRejects(data, auth) # ""
           THEN /\ fn' = [f EXCEPT !.code = createAppUserRejects(data, auth)]
                /\ UNCHANGED <<db, now>>
           ELSE IF emailTaken \/ fail = "createUser"
           THEN /\ fn' = [f EXCEPT !.code = "internal"]
                /\ UNCHANGED <<db, now>>
           ELSE IF fail = "set"
           THEN /\ fn' = [f EXCEPT !.code = "internal",
                                   !.identities = (uid :> data.email) @@ @]
                /\ UNCHANGED <<db, now>>
           ELSE /\ fn' = [f EXCEPT !.code = "ok",
                                   !.identities = (uid :> data.email) @@ @]
                /\ db' = [db EXCEPT !.app_users = (uid :> appUserDoc(data, auth)) @@ @]
                /\ now' = now + 1
    /\ UNCHANGED <<currentUser, effectiveOwnerId, role, calls, nextId, last,
                   del, modal, screen, mail, find>>

\* the payloads sent to createAppUser
CreateData ==
    {[email |-> em, password |-> pw, full_name |-> "N", contact_number |-> Undefined,
      role |-> r, status |-> Undefined] :
        em \in {"", "n@x", "a1@x"}, pw \in {Undefined, "pw"},
        r \in {Undefined, "admin", "driver"}}

\* the session that calls the function: any account, or none
InitCreate ==
    /\ currentUser \in Users \cup {Null}
    /\ effectiveOwnerId = Null
    /\ role = "owner"
    /\ db = SeedDb
    /\ now = 1
    /\ calls = 0
    /\ nextId = 4
    /\ last = [svc |-> "none", op |-> "idle", id |-> 0, key |-> Null, data |-> NoData,
               err |-> "", ret |-> {}, pre |-> SeedDb]
    /\ del = NoDelete
    /\ modal = NoModal
    /\ screen = NoScreen
    /\ mail = NoMail
    /\ fn = NoFunctionCall
    /\ find = NoFind

NextCreate ==
    \E data \in CreateData, fail \in {"none", "createUser", "set"} :
        createAppUser(data, fail)

SpecCreate == InitCreate /\ [][NextCreate]_vars

(* ========================= systemSettingsService ======================== *)
(* One document per tenant, keyed by the owner id.  The calls are made by  *)
(* the sessions of the main specification.                                 *)

SettingsData ==
    {[fuel_price_per_liter |-> 65, delay_fee_per_hour |-> 100],
     [fuel_price_per_liter |-> 70]}

\* setDoc(ref, data, { merge: true }): the document is created, or takes the
\* fields of data
setDocMerge(coll, id, data) ==
    [db EXCEPT ![coll] =
        IF id \in DOMAIN @
        THEN [@ EXCEPT ![id] = Spread(@, data)]
        ELSE (id :> data) @@ @]

\* the error systemSettingsService.upsert throws before writing, "" when it writes
systemSettingsUpsertError ==
    IF requireOwnerIdThrows THEN ErrLogin
    ELSE IF getRoleSync # "owner" THEN "Only Owner can update system settings"
    ELSE ""

\* what systemSettingsService.get resolves with for the tenant ownerId
systemSettings(ownerId) ==
    IF ownerId \notin DOMAIN db.system_settings
    THEN [fuel_price_per_liter |-> 0, delay_fee_per_hour |-> 0]
    ELSE fromFirestore(ownerId, db.system_settings[ownerId])

systemSettingsService_get ==
    IF requireOwnerIdThrows
    THEN Read(Threw("systemSettings", "get", 0, Null, NoData, ErrLogin))
    ELSE Read(Returned("systemSettings", "get", 0, requireOwnerId, NoData,
                       {systemSettings(requireOwnerId)}))

systemSettingsService_upsert(data) ==
    IF systemSettingsUpsertError # ""
    THEN Write(Threw("systemSettings", "upsert", 0, Null, data, systemSettingsUpsertError),
               db, FALSE)
    ELSE Write(Returned("systemSettings", "upsert", 0, requireOwnerId, data, {}),
               setDocMerge("system_settings", requireOwnerId,
                           Spread(data, [updated_at |-> now])),
               FALSE)

NextSettings ==
    \/ \E u \in Users : signInWithPassword(u)
    \/ signOut
    \/ LoadAuthCache
    \/ ClearAuthCache
    \/ systemSettingsService_get
    \/ \E data \in SettingsData : systemSettingsService_upsert(data)

SpecSettings == Init /\ [][NextSettings]_vars

(* ======================= a driver's trip submissions =================== *)
(* The modal is opened on a booking assigned to the driver; opening it     *)
(* starts systemSettingsService.get(), whose result replaces the default   *)
(* rates when it arrives; the payload handleSubmit passes to onSubmit is    *)
(* written to the booking with bookingsService.update.                     *)

\* the booking the driver works on
TripBooking == 1

\* what the driver types as the fuel level
TripFuelTexts == {<<>>, <<"3", "0">>, <<"5", "0">>}

\* the modal becomes visible in a mode: the inputs are filled in, and the
\* effect starts loading the settings
openModal(mode, fuel, clock) ==
    /\ CanCall
    /\ ~modal.visible
    /\ modal' = [visible |-> TRUE, mode |-> mode,
                 booking |-> fromFirestore(TripBooking, db.bookings[TripBooking]),
                 startFuel |-> IF mode = "ongoing" THEN fuel ELSE <<>>,
                 paymentAtStart |-> <<>>,
                 endFuel |-> IF mode = "ongoing" THEN <<>> ELSE fuel,
                 paymentAtEnd |-> <<>>,
                 settings |-> modal.settings,
                 get |-> "pending", clock |-> clock,
                 alert |-> FALSE, submitted |-> <<>>]
    /\ UNCHANGED <<storeVars, del, screen, mail, fn, find>>

\* systemSettingsService.get().then(setSettings)
settingsResolve ==
    /\ modal.get = "pending"
    /\ modal' = [modal EXCEPT
                   !.get = "resolved",
                   !.settings = IF requireOwnerIdThrows THEN @
                                ELSE systemSettings(requireOwnerId)]
    /\ UNCHANGED <<storeVars, del, screen, mail, fn, find>>

\* systemSettingsService.get() rejects: .catch(() => {})
settingsFail ==
    /\ modal.get = "pending"
    /\ modal' = [modal EXCEPT !.get = "failed"]
    /\ UNCHANGED <<storeVars, del, screen, mail, fn, find>>

\* onSubmit(payload): the payload is written to the booking
onSubmit ==
    /\ modal.submitted # <<>>
    /\ Get(db.bookings[TripBooking], "status") # modal.submitted[1].status
    /\ bookingsService_update(TripBooking, modal.submitted[1])

\* the driver d1 is signed in with the cache loaded; the tenant has stored its
\* rates; booking 1, assigned to d1, is confirmed and has an expected return
InitTrip ==
    /\ currentUser = "d1"
    /\ effectiveOwnerId = "o1"
    /\ role = "driver"
    /\ db = [SeedDb EXCEPT
                !.bookings[TripBooking] =
                    Spread(@, [status |-> "confirmed",
                               rental_end_date |-> [ms |-> 10 * MsPerHour]]),
                !.system_settings =
                    ("o1" :> [fuel_price_per_liter |-> 65, delay_fee_per_hour |-> 100,
                              updated_at |-> 0]) @@ @]
    /\ now = 1
    /\ calls = 0
    /\ nextId = 4
    /\ last = [svc |-> "none", op |-> "idle", id |-> 0, key |-> Null, data |-> NoData,
               err |-> "", ret |-> {}, pre |-> SeedDb]
    /\ del = NoDelete
    /\ modal = NoModal
    /\ screen = NoScreen
    /\ mail = NoMail
    /\ fn = NoFunctionCall
    /\ find = NoFind

NextTrip ==
    \/ \E mode \in {"ongoing", "completed"}, fuel \in TripFuelTexts, clock \in ModalClocks :
           openModal(mode, fuel, clock)
    \/ settingsResolve
    \/ settingsFail
    \/ handleSubmit
    \/ dismissAlert
    \/ onSubmit

SpecTrip == InitTrip /\ [][NextTrip]_vars

(* ============================ joined reads ============================= *)
(* listWithVehicles, listAvailableWithVehicles and listWithDetails read the *)
(* tenant's variants or bookings and attach to each the vehicle (and        *)
(* variant) its vehicle_id (vehicle_variant_id) names.                       *)

\* fromFirestore of a snapshot that does not exist, and `|| null`
NullDoc == [isNull |-> TRUE]

\* getVehicleById(id) / getVariantById(id): getDoc and fromFirestore
getVehicleById(id) ==
    IF id \in DOMAIN db.vehicles THEN fromFirestore(id, db.vehicles[id]) ELSE NullDoc

getVariantById(id) ==
    IF id \in DOMAIN db.vehicle_variants
    THEN fromFirestore(id, db.vehicle_variants[id]) ELSE NullDoc

\* vehiclesMap[r.vehicle_id] || null, the map holding getVehicleById(id) for
\* every id the records name
vehiclesOf(r) ==
    IF "vehicle_id" \in DOMAIN r THEN getVehicleById(r.vehicle_id) ELSE NullDoc

\* variantsMap[b.vehicle_variant_id] || null
vehicleVariantsOf(b) ==
    IF "vehicle_variant_id" \in DOMAIN b THEN getVariantById(b.vehicle_variant_id) ELSE NullDoc

\* the variants with their vehicles attached
withVehicles(variants) ==
    {Spread(v, [vehicles |-> vehiclesOf(v)]) : v \in variants}

\* where("available_quantity", ">", 0)
availableOnly(ids) ==
    {i \in ids : /\ "available_quantity" \in DOMAIN db.vehicle_variants[i]
                 /\ db.vehicle_variants[i].available_quantity > 0}

variantsService_listWithVehicles ==
    IF requireOwnerIdThrows
    THEN Read(Threw("variants", "listWithVehicles", 0, Null, NoData, ErrLogin))
    ELSE Read(Returned("variants", "listWithVehicles", 0, Null, NoData,
              withVehicles(fromFirestoreList("vehicle_variants",
                  getDocs("vehicle_variants", {where("user_id", requireOwnerId)}, Null)))))

variantsService_listAvailableWithVehicles ==
    IF requireOwnerIdThrows
    THEN Read(Threw("variants", "listAvailableWithVehicles", 0, Null, NoData, ErrLogin))
    ELSE Read(Returned("variants", "listAvailableWithVehicles", 0, Null, NoData,
              withVehicles(fromFirestoreList("vehicle_variants",
                  availableOnly(getDocs("vehicle_variants",
                                        {where("user_id", requireOwnerId)}, Null))))))

bookingsService_listWithDetails ==
    IF bookingsQueryThrows
    THEN Read(Threw("bookings", "listWithDetails", 0, Null, NoData, ErrLogin))
    ELSE Read(Returned("bookings", "listWithDetails", 0, Null, NoData,
              {Spread(b, [vehicles |-> vehiclesOf(b),
                          vehicle_variants |-> vehicleVariantsOf(b)]) :
                  b \in fromFirestoreList("bookings", bookingsQuery(requireOwnerId))}))

\* the references a caller gives to a new variant or to a booking
JoinVariantData ==
    {[vehicle_id |-> 1, color |-> "blue", available_quantity |-> 1],
     [vehicle_id |-> 2, color |-> "blue", available_quantity |-> 1],
     [vehicle_id |-> 2, color |-> "blue", available_quantity |-> 0]}

JoinBookingData ==
    {[vehicle_id |-> 1, vehicle_variant_id |-> 1],
     [vehicle_id |-> 2, vehicle_variant_id |-> 2]}

\* a user is signed in and the cache holds the owner_uid and role of its record
InitJoin ==
    /\ currentUser \in {"o1", "o2", "a1", "d1"}
    /\ effectiveOwnerId = SeedDb.app_users[currentUser].owner_uid
    /\ role = SeedDb.app_users[currentUser].role
    /\ db = SeedDb
    /\ now = 1
    /\ calls = 0
    /\ nextId = 4
    /\ last = [svc |-> "none", op |-> "idle", id |-> 0, key |-> Null, data |-> NoData,
               err |-> "", ret |-> {}, pre |-> SeedDb]
    /\ del = NoDelete
    /\ modal = NoModal
    /\ screen = NoScreen
    /\ mail = NoMail
    /\ fn = NoFunctionCall
    /\ find = NoFind

NextJoin ==
    \/ \E data \in JoinVariantData : variantsService_add(data)
    \/ \E id \in Ids("bookings"), data \in JoinBookingData : bookingsService_update(id, data)
    \/ variantsService_listWithVehicles
    \/ variantsService_listAvailableWithVehicles
    \/ bookingsService_listWithDetails

SpecJoin == InitJoin /\ [][NextJoin]_vars

(* ================= ensureOwnerAppUser and createAppUser ================= *)
(* createAppUser, called by the owner o1, creates the identity and then     *)
(* writes its app_users record; the device of this model signs in with an   *)
(* identity and runs ensureOwnerAppUser, which reads the record and then    *)
(* writes the owner defaults.  Each await is a step.                         *)

\* the owner whose session calls createAppUser
Creator == "o1"

\* admin.auth().createUser(...) of a call that passed the argument tests
createAppUser_createUser(data, ok) ==
    /\ fn.pc = "idle"
    /\ fn.count < MaxCreates
    /\ createAppUserRejects(data, Creator) = ""
    /\ LET uid == NewUids[fn.count + 1]
           f == [fn EXCEPT !.data = data, !.auth = Creator, !.count = @ + 1,
                           !.preIdentities = DOMAIN fn.identities,
                           !.preUsers = db.app_users]
           emailTaken == \E u \in DOMAIN fn.identities : fn.identities[u] = data.email
       IN  IF emailTaken \/ ~ok
           THEN fn' = [f EXCEPT !.code = "internal"]
           ELSE fn' = [f EXCEPT !.code = "none", !.pc = "set", !.uid = uid,
                                !.identities = (uid :> data.email) @@ @]
    /\ UNCHANGED <<storeVars, del, modal, screen, mail, find>>

\* .collection("app_users").doc(userRecord.uid).set({...})
createAppUser_set(ok) ==
    /\ fn.pc = "set"
    /\ IF ok
       THEN /\ fn' = [fn EXCEPT !.code = "ok", !.pc = "idle",
                                !.written = (fn.uid :> appUserDoc(fn.data, fn.auth)) @@ @]
            /\ db' = [db EXCEPT !.app_users =
                         [u \in (DOMAIN @) \cup {fn.uid} |->
                             IF u = fn.uid THEN appUserDoc(fn.data, fn.auth) ELSE @[u]]]
            /\ now' = now + 1
       ELSE /\ fn' = [fn EXCEPT !.code = "internal", !.pc = "idle"]
            /\ UNCHANGED <<db, now>>
    /\ UNCHANGED <<currentUser, effectiveOwnerId, role, calls, nextId, last,
                   del, modal, screen, mail, find>>

\* ensureOwnerAppUser up to the end of its getDoc: it returns when nobody is
\* signed in or when the record exists
ensureOwnerAppUser_getDoc ==
    /\ fn.ensure.pc = "idle"
    /\ IF currentUser = Null \/ currentUser \in DOMAIN db.app_users
       THEN UNCHANGED fn
       ELSE fn' = [fn EXCEPT !.ensure = [pc |-> "setDoc", uid |-> currentUser]]
    /\ UNCHANGED <<storeVars, del, modal, screen, mail, find>>

\* setDoc(d, { email, role: "owner", owner_uid: uid, status: "active", ... }, { merge: true })
ensureOwnerAppUser_setDoc ==
    /\ fn.ensure.pc = "setDoc"
    /\ db' = setDocMerge("app_users", fn.ensure.uid,
                 [email |-> IF currentUser = Null THEN "" ELSE fn.identities[currentUser],
                  role |-> "owner", owner_uid |-> fn.ensure.uid, status |-> "active",
                  created_at |-> now, updated_at |-> now])
    /\ now' = now + 1
    /\ fn' = [fn EXCEPT !.ensure = [pc |-> "idle", uid |-> Null],
                        !.ensureWrote = @ \cup {fn.ensure.uid}]
    /\ UNCHANGED <<currentUser, effectiveOwnerId, role, calls, nextId, last,
                   del, modal, screen, mail, find>>

\* the payloads of the owner's createAppUser calls
EnsureCreateData ==
    {[email |-> "n@x", password |-> "pw", full_name |-> "N", contact_number |-> Undefined,
      role |-> r, status |-> Undefined] : r \in {"admin", "driver"}}

\* nobody is signed in on the device
InitEnsure ==
    /\ currentUser = Null
    /\ effectiveOwnerId = Null
    /\ role = "owner"
    /\ db = SeedDb
    /\ now = 1
    /\ calls = 0
    /\ nextId = 4
    /\ last = [svc |-> "none", op |-> "idle", id |-> 0, key |-> Null, data |-> NoData,
               err |-> "", ret |-> {}, pre |-> SeedDb]
    /\ del = NoDelete
    /\ modal = NoModal
    /\ screen = NoScreen
    /\ mail = NoMail
    /\ fn = NoFunctionCall
    /\ find = NoFind

NextEnsure ==
    \/ \E data \in EnsureCreateData, ok \in BOOLEAN : createAppUser_createUser(data, ok)
    \/ \E ok \in BOOLEAN : createAppUser_set(ok)
    \/ \E u \in {"d1"} \cup (DOMAIN fn.identities \ DOMAIN NoFunctionCall.identities) :
           signInWithPassword(u)
    \/ signOut
    \/ ensureOwnerAppUser_getDoc
    \/ ensureOwnerAppUser_setDoc

SpecEnsure == InitEnsure /\ [][NextEnsure]_vars

(* ============== websiteContentService and galleryService =============== *)
(* upsert and getOrCreateGallery look the record up and, after the await,   *)
(* update the one found or add a new one.  Two sessions of the tenant of    *)
(* this model's session make the calls; each await is a step.               *)

MaxFinds == 3

Sections == {"hero", "about"}

ContentData == {[title |-> "t"]}

\* the store with the two collections, still empty
FindDb == [website_content |-> <<>>, gallery |-> <<>>] @@ SeedDb

\* snap.docs[0]: the first document of a query result, 0 when it is empty
FirstDoc(ids) == IF ids = {} THEN 0 ELSE CHOOSE i \in ids : \A j \in ids : i <= j

\* a call of session s starts: requireOwnerId() and the await of getDocs
findStarts(s, op, section, ids) ==
    /\ find.at[s].pc = "idle"
    /\ find.calls < MaxFinds
    /\ find' = [calls |-> find.calls + 1,
                at |-> [find.at EXCEPT ![s] = [pc |-> "found", op |-> op,
                                               section |-> section,
                                               existing |-> FirstDoc(ids)]]]
    /\ UNCHANGED <<storeVars, del, modal, screen, mail, fn>>

\* websiteContentService.upsert(section, data) up to the end of getDocs
websiteContentService_upsert_getDocs(s, section) ==
    /\ ~requireOwnerIdThrows
    /\ findStarts(s, "upsert", section,
                  getDocs("website_content",
                          {where("user_id", requireOwnerId), where("section", section)}, Null))

\* galleryService.getOrCreateGallery() up to the end of getDocs
galleryService_getOrCreateGallery_getDocs(s) ==
    /\ ~requireOwnerIdThrows
    /\ findStarts(s, "getOrCreateGallery", "",
                  getDocs("gallery", {where("user_id", requireOwnerId)}, Null))

\* the call of session s writes and returns
findEnds(s, newdb, added) ==
    /\ db' = newdb
    /\ now' = IF newdb # db THEN now + 1 ELSE now
    /\ nextId' = IF added THEN nextId + 1 ELSE nextId
    /\ find' = [find EXCEPT !.at[s] = NoFind.at[s]]
    /\ UNCHANGED <<currentUser, effectiveOwnerId, role, calls, last,
                   del, modal, screen, mail, fn>>

\* upsert after getDocs: updateDoc(existing.ref, payload), or addDoc
websiteContentService_upsert_write(s, data) ==
    /\ find.at[s].pc = "found"
    /\ find.at[s].op = "upsert"
    /\ LET payload == Spread(data, [section |-> find.at[s].section,
                                    user_id |-> requireOwnerId, updated_at |-> now])
       IN  IF find.at[s].existing # 0
           THEN findEnds(s, [db EXCEPT !.website_content[find.at[s].existing] =
                                           Spread(@, payload)], FALSE)
           ELSE findEnds(s, addDoc("website_content", payload, requireOwnerId), TRUE)

\* getOrCreateGallery after getDocs: return snap.docs[0].id, or addDoc
galleryService_getOrCreateGallery_write(s) ==
    /\ find.at[s].pc = "found"
    /\ find.at[s].op = "getOrCreateGallery"
    /\ IF find.at[s].existing # 0
       THEN findEnds(s, db, FALSE)
       ELSE findEnds(s, addDoc("gallery", NoData, requireOwnerId), TRUE)

\* the owner or the admin of tenant o1 is signed in with the cache loaded
InitFind ==
    /\ currentUser \in {"o1", "a1"}
    /\ effectiveOwnerId = "o1"
    /\ role = SeedDb.app_users[currentUser].role
    /\ db = FindDb
    /\ now = 1
    /\ calls = 0
    /\ nextId = 4
    /\ last = [svc |-> "none", op |-> "idle", id |-> 0, key |-> Null, data |-> NoData,
               err |-> "", ret |-> {}, pre |-> SeedDb]
    /\ del = NoDelete
    /\ modal = NoModal
    /\ screen = NoScreen
    /\ mail = NoMail
    /\ fn = NoFunctionCall
    /\ find = NoFind

NextFind ==
    \E s \in FindSessions :
        \/ \E section \in Sections : websiteContentService_upsert_getDocs(s, section)
        \/ \E data \in ContentData : websiteContentService_upsert_write(s, data)
        \/ galleryService_getOrCreateGallery_getDocs(s)
        \/ galleryService_getOrCreateGallery_write(s)

SpecFind == InitFind /\ [][NextFind]_vars

(* ======================= properties of the services ===================== *)

TenantServices == {"vehicles", "variants", "bookings", "carOwners", "notifications"}

\* the collection a service works on
Coll(svc) ==
    CASE svc = "vehicles" -> "vehicles"
      [] svc = "variants" -> "vehicle_variants"
      [] svc = "bookings" -> "bookings"
      [] svc = "carOwners" -> "car_owners"
      [] svc = "notifications" -> "notifications"
      [] OTHER -> "app_users"

\* the tenant id the completed call ran with (the session is unchanged by a call)
CallOwnerId == requireOwnerId

\* the target of the completed call in the store the call started from
Target == last.pre[Coll(last.svc)][last.id]
TargetExisted == last.id \in DOMAIN last.pre[Coll(last.svc)]

\* the ownership rule of update(id, data): the record is missing, is another
\* tenant's, or is a booking not assigned to the calling driver
OwnershipDenied ==
    \/ ~TargetExisted
    \/ Target.user_id # CallOwnerId
    \/ /\ last.svc = "bookings"
       /\ role = "driver"
       /\ Get(Target, "assigned_driver_id") # currentUser

\* C1: a list() of the vehicles, variants, bookings, car owners or notifications
\* service that ran with effective owner id T1 returns only records whose
\* user_id is T1, never a record of another tenant T2.
C1_ListTenantIsolation ==
    (last.op = "list" /\ last.svc \in TenantServices /\ last.err = "")
        => \A r \in last.ret : r.user_id = CallOwnerId

\* a vehicles list() returned records while the store holds a vehicle of another tenant
C1_Witness ==
    /\ last.svc = "vehicles" /\ last.op = "list"
    /\ last.ret # {}
    /\ \E i \in DOMAIN db.vehicles : db.vehicles[i].user_id # CallOwnerId

\* the tenant's bookings in the store, as documents
TenantBookings ==
    {fromFirestore(i, db.bookings[i]) :
        i \in {j \in DOMAIN db.bookings : db.bookings[j].user_id = CallOwnerId}}

\* C2: bookingsService.list() with cached role driver and signed-in user D
\* returns only bookings of the effective owner that are assigned to D; with the
\* role owner or admin it returns exactly the bookings of the effective owner,
\* whatever their assigned driver.
C2_DriverScoping ==
    (last.svc = "bookings" /\ last.op = "list" /\ last.err = "")
        => IF role = "driver"
           THEN \A r \in last.ret :
                    /\ Get(r, "assigned_driver_id") = currentUser
                    /\ r.user_id = CallOwnerId
           ELSE last.ret = TenantBookings

\* a driver's list() returned a booking while the tenant has a booking that is
\* not assigned to that driver
C2_Witness ==
    /\ last.svc = "bookings" /\ last.op = "list"
    /\ role = "driver"
    /\ last.ret # {}
    /\ \E r \in TenantBookings : Get(r, "assigned_driver_id") # currentUser

\* C3: with nobody signed in (auth.currentUser null), every call of the record
\* access layer fails with an error and neither reads nor writes a record, also
\* while the tenancy cache still holds an effective owner id.
C3_NoSessionFails ==
    (last.op # "idle" /\ currentUser = Null)
        => (last.err # "" /\ last.ret = {} /\ db = last.pre)

\* C4: a record's user_id never changes after creation: every record that a
\* call leaves in the store has the user_id it had before the call, for any
\* data given to update (also data that carries a user_id field).
C4_TenantIdImmutable ==
    \A svc \in TenantServices :
        \A i \in (DOMAIN db[Coll(svc)]) \cap (DOMAIN last.pre[Coll(svc)]) :
            db[Coll(svc)][i].user_id = last.pre[Coll(svc)][i].user_id

\* C5: an update(id, data) made by a signed-in caller is denied and leaves the
\* store unchanged when the record is missing, belongs to another tenant, or
\* (bookings) the caller is a driver the booking is not assigned to; otherwise
\* it succeeds, the target takes the fields of data and an updated_at stamp,
\* keeps its other fields, and nothing else in the store changes.
C5_UpdateChecksOwnership ==
    (last.op = "update" /\ last.svc \in TenantServices /\ currentUser # Null)
        => IF OwnershipDenied
           THEN last.err # "" /\ db = last.pre
           ELSE LET c == Coll(last.svc)
                    new == db[c][last.id]
                IN  /\ last.err = ""
                    /\ \A o \in DOMAIN db : o # c => db[o] = last.pre[o]
                    /\ DOMAIN db[c] = DOMAIN last.pre[c]
                    /\ \A i \in DOMAIN db[c] : i # last.id => db[c][i] = last.pre[c][i]
                    /\ DOMAIN new = (DOMAIN Target) \cup (DOMAIN last.data) \cup {"updated_at"}
                    /\ \A k \in DOMAIN new :
                          IF k = "updated_at" THEN new[k] = now - 1
                          ELSE IF k \in DOMAIN last.data THEN new[k] = last.data[k]
                          ELSE new[k] = Target[k]

\* a driver's update of a booking of the tenant that is not assigned to the
\* driver was denied
C5_Witness ==
    /\ last.svc = "bookings" /\ last.op = "update"
    /\ currentUser # Null /\ role = "driver"
    /\ TargetExisted
    /\ Target.user_id = CallOwnerId
    /\ Get(Target, "assigned_driver_id") # currentUser
    /\ last.err = "Access denied"

\* C6: delete(id) applies the ownership check of update(id, .): a delete made
\* by a signed-in caller on a record that update would refuse is denied and the
\* record stays in the store; in particular a driver's delete of a tenant
\* booking that is not assigned to the driver.
C6_DeleteChecksLikeUpdate ==
    (last.op = "delete" /\ last.svc \in TenantServices /\ currentUser # Null
       /\ OwnershipDenied)
        => (last.err # "" /\ db = last.pre)

\* the record getById may return: the target, when the ownership rule admits it
VisibleTarget ==
    IF OwnershipDenied THEN {} ELSE {fromFirestore(last.id, Target)}

\* C7: getById(id) of the vehicles, variants, bookings and car owners services,
\* made by a signed-in caller, returns the record only if its user_id is the
\* effective owner id (and, for a driver's booking, it is assigned to the
\* caller); otherwise it returns null, without an error.
C7_GetByIdScoped ==
    (last.op = "getById" /\ last.svc \in TenantServices /\ currentUser # Null)
        => (last.err = "" /\ last.ret = VisibleTarget)

\* the error the operation of the completed call throws for an id that is in
\* no collection
MissingRecordError ==
    CASE last.svc = "vehicles" /\ last.op = "update" -> vehiclesUpdateError(nextId)
      [] last.svc = "vehicles" /\ last.op = "delete" -> vehiclesDeleteError(nextId)
      [] last.svc = "variants" /\ last.op = "update" -> variantsUpdateError(nextId)
      [] last.svc = "variants" /\ last.op = "adjustQuantity" ->
             variantsAdjustQuantityError(nextId)
      [] last.svc = "bookings" /\ last.op = "update" -> bookingsUpdateError(nextId)
      [] last.svc = "bookings" /\ last.op = "delete" -> bookingsDeleteError(nextId)
      [] last.svc = "carOwners" /\ last.op = "update" -> carOwnersUpdateError(nextId)
      [] last.svc = "carOwners" /\ last.op = "delete" -> carOwnersDeleteError(nextId)
      [] last.svc = "notifications" /\ last.op = "update" ->
             notificationsUpdateError(nextId)
      [] OTHER -> appUsersUpdateError("zz")

\* C8: a mutating call (update, delete, adjustQuantity, appUsersService.update)
\* refused on a record that exists but is another tenant's, or is not assigned
\* to the calling driver, ends with the same error as the same call on an id
\* that does not exist.
C8_ExistenceIndistinguishable ==
    (/\ last.op \in {"update", "delete", "adjustQuantity"}
     /\ currentUser # Null
     /\ last.err # ""
     /\ IF last.svc = "appUsers"
        THEN last.key \in DOMAIN last.pre.app_users
        ELSE TargetExisted)
        => last.err = MissingRecordError

Clamp(x, lo, hi) == IF x < lo THEN lo ELSE IF x > hi THEN hi ELSE x

\* C9: a successful adjustQuantity(v, delta) leaves the stored variant with
\* 0 <= available_quantity <= total_quantity, whatever was stored before, the
\* value written being clamp(available + delta, 0, total).
C9_AdjustQuantityClamps ==
    (last.svc = "variants" /\ last.op = "adjustQuantity" /\ last.err = ""
       /\ "total_quantity" \in DOMAIN Target)
        => LET v == db.vehicle_variants[last.id]
               before == IF "available_quantity" \in DOMAIN Target
                         THEN Target.available_quantity ELSE 0
           IN  /\ 0 <= v.available_quantity
               /\ v.available_quantity <= v.total_quantity
               /\ v.available_quantity =
                      Clamp(before + last.data.change, 0, v.total_quantity)

\* C10: every stored variant satisfies 0 <= available_quantity <= total_quantity
\* after any sequence of variantsService add, update and adjustQuantity calls.
C10_VariantInvariant ==
    \A i \in DOMAIN db.vehicle_variants :
        LET v == db.vehicle_variants[i]
        IN  ("available_quantity" \in DOMAIN v /\ "total_quantity" \in DOMAIN v)
                => (0 <= v.available_quantity
                    /\ v.available_quantity <= v.total_quantity)


(* ------------------------------------------------------------------------ *)
\* the records of a collection that the store held when the delete began and
\* holds no more
Removed(coll) == (DOMAIN del.pre[coll]) \ (DOMAIN db[coll])

\* C11: vehiclesService.delete is all-or-nothing.  At every point of a delete,
\* under every interleaving with variants being added, the records the store
\* held when the delete began are all still there, unchanged, until the
\* commit succeeds (so also when the ownership check, the variant query or
\* the commit fails), and after it the vehicle and every collected variant
\* are gone together and nothing else is: no state has a part of the batch
\* removed.
C11_DeleteAllOrNothing ==
    del.pc # "idle" =>
        /\ \A coll \in DOMAIN db : \A i \in (DOMAIN del.pre[coll]) \cap (DOMAIN db[coll]) :
               db[coll][i] = del.pre[coll][i]
        /\ IF del.pc = "done"
           THEN /\ Removed("vehicles") = {del.id}
                /\ Removed("vehicle_variants") = del.refs \cap DOMAIN del.pre.vehicle_variants
                /\ del.refs \cap DOMAIN db.vehicle_variants = {}
                /\ \A coll \in (DOMAIN db) \ {"vehicles", "vehicle_variants"} :
                       Removed(coll) = {}
           ELSE \A coll \in DOMAIN db : Removed(coll) = {}

\* a vehicle with two variants has been deleted: all three records are gone
C11_Witness ==
    /\ del.pc = "done"
    /\ Cardinality(del.refs) = 2
    /\ del.id \notin DOMAIN db.vehicles
    /\ del.refs \cap DOMAIN db.vehicle_variants = {}

\* C12: no orphaned variants.  Once a vehiclesService.delete(id) has
\* committed, the store holds no variant with vehicle_id = id that was there
\* at the commit: neither one that another session added between the variant
\* query and the commit, nor one whose user_id is another tenant's.
C12_NoOrphanedVariants ==
    del.pc = "done" =>
        \A i \in DOMAIN db.vehicle_variants :
            ~ /\ db.vehicle_variants[i].vehicle_id = del.id
              /\ db.vehicle_variants[i].created_at < del.at

(* ------------------------------------------------------------------------ *)
\* the record a completed add(data) stored: data with user_id and created_at
\* overridden by the effective owner id and the creation timestamp
Stamped == Spread(last.data, [user_id |-> CallOwnerId, created_at |-> now - 1])

\* C13: add(data) of every entity service fails without writing when nobody is
\* signed in; otherwise it adds exactly one record, which is data with user_id
\* set to the effective owner id of the session and created_at set to the
\* creation timestamp, whatever user_id or created_at data carries.
C13_AddStamps ==
    (last.op = "add" /\ last.svc \in TenantServices)
        => IF currentUser = Null
           THEN last.err # "" /\ db = last.pre
           ELSE /\ last.err = ""
                /\ last.id \notin DOMAIN last.pre[Coll(last.svc)]
                /\ db = [last.pre EXCEPT ![Coll(last.svc)] = (last.id :> Stamped) @@ @]

(* ------------------------------------------------------------------------ *)
\* the completion payload that has been submitted
Submitted == modal.submitted[1]
Completed == modal.submitted # <<>> /\ Submitted.status = "completed"

\* the fuel at the start recorded on the booking (none: 0) and the rates held
StartFuel == IF "start_fuel" \in DOMAIN modal.booking THEN modal.booking.start_fuel ELSE 0
FuelPricePerLiter == modal.settings.fuel_price_per_liter
DelayFeePerHour ==
    IF "delay_fee_per_hour" \in DOMAIN modal.settings
    THEN modal.settings.delay_fee_per_hour ELSE 0

\* C14: the fuel charge of a completion payload, for a non-negative fuel at
\* the start, fuel at the end (the end_fuel submitted) and price per liter, is
\* (start - end) * price when start > end and 0 otherwise, and is never
\* negative.
C14_FuelCharge ==
    (Completed /\ StartFuel >= 0 /\ Submitted.end_fuel >= 0 /\ FuelPricePerLiter >= 0)
        => /\ Submitted.fuel_charge =
                  IF StartFuel > Submitted.end_fuel
                  THEN (StartFuel - Submitted.end_fuel) * FuelPricePerLiter
                  ELSE 0
           /\ Submitted.fuel_charge >= 0

\* start 45, end 30, price 65: the charge is 975
C14_Witness ==
    /\ Completed
    /\ StartFuel = 45 /\ Submitted.end_fuel = 30 /\ FuelPricePerLiter = 65
    /\ Submitted.fuel_charge = 975

\* C15: delay_hours of a completion payload is the time from the expected
\* return (the booking's rental_end_date) to the actual return in hours,
\* exactly (not rounded), when the actual return is later, and 0 when it is not
\* later or the booking records no expected return; delay_fee is delay_hours
\* times the delay fee per hour.
C15_DelayFee ==
    Completed =>
        /\ Submitted.delay_hours.d > 0 /\ Submitted.delay_fee.d > 0
        /\ IF "rental_end_date" \in DOMAIN modal.booking
              /\ modal.clock > modal.booking.rental_end_date.ms
           THEN Submitted.delay_hours.n * (MsPerHour \div 1000) =
                    ((modal.clock - modal.booking.rental_end_date.ms) \div 1000)
                        * Submitted.delay_hours.d
                /\ (modal.clock - modal.booking.rental_end_date.ms) % 1000 = 0
           ELSE Submitted.delay_hours.n = 0
        /\ Submitted.delay_fee.n * Submitted.delay_hours.d =
               Submitted.delay_hours.n * DelayFeePerHour * Submitted.delay_fee.d

\* two hours and a half late at 100 per hour: delay_hours 5/2, delay_fee 250
C15_Witness ==
    /\ Completed
    /\ "rental_end_date" \in DOMAIN modal.booking
    /\ modal.clock - modal.booking.rental_end_date.ms = 9000000
    /\ DelayFeePerHour = 100
    /\ Submitted.delay_hours = [n |-> 5, d |-> 2]
    /\ Submitted.delay_fee = [n |-> 250, d |-> 1]

(* ------------------------------------------------------------------------ *)
\* a field of a booking, 0 when the booking does not carry it
Amount(b, k) == IF k \in DOMAIN b THEN b[k] ELSE 0

\* the payments, and the deductions, of the screen's bookings at the positions S
RECURSIVE PaidAt(_)
PaidAt(S) ==
    IF S = {} THEN 0
    ELSE LET i == CHOOSE j \in S : TRUE
         IN  Amount(screen.bookings[i], "payment_at_start")
             + Amount(screen.bookings[i], "payment_at_end") + PaidAt(S \ {i})

RECURSIVE DeductedAt(_)
DeductedAt(S) ==
    IF S = {} THEN 0
    ELSE LET i == CHOOSE j \in S : TRUE
         IN  Amount(screen.bookings[i], "fuel_charge")
             + Amount(screen.bookings[i], "delay_fee") + DeductedAt(S \ {i})

CompletedAt == {i \in DOMAIN screen.bookings : screen.bookings[i].status = "completed"}

\* C16: for every list of bookings the screen has loaded, netBalance is the sum
\* over the completed bookings of payment_at_start + payment_at_end, minus the
\* sum over the same bookings of fuel_charge + delay_fee; bookings in another
\* status contribute nothing and a missing field counts as 0.
C16_NetBalance ==
    netBalance = PaidAt(CompletedAt) - DeductedAt(CompletedAt)

\* the two completed bookings of the example, with a booking that is not
\* completed between them: the balance is 2000
C16_Witness ==
    /\ ~screen.loading
    /\ Len(screen.bookings) = 3
    /\ screen.bookings[1].status = "completed"
    /\ Amount(screen.bookings[1], "payment_at_start") = 1000
    /\ screen.bookings[2].status = "confirmed"
    /\ screen.bookings[3].status = "completed"
    /\ Amount(screen.bookings[3], "payment_at_start") = 800
    /\ netBalance = 2000

(* ------------------------------------------------------------------------ *)
\* the decline reason of the booking dispatched is missing, empty or white space
NoDeclineReason ==
    \/ mail.booking = NullBooking
    \/ "decline_reason" \notin DOMAIN mail.booking
    \/ \A i \in DOMAIN mail.booking.decline_reason : mail.booking.decline_reason[i] = " "

\* C17: sendStatusUpdateEmail(booking, "declined") with a missing, empty or
\* white-space decline reason returns {success: false, error} and never invokes
\* the remote procedure.
C17_DeclineNeedsReason ==
    (mail.pc # "idle" /\ mail.newStatus = "declined" /\ NoDeclineReason)
        => /\ mail.pc = "done"
           /\ mail.invocations = 0
           /\ mail.sent = {}
           /\ ~mail.threw
           /\ ~mail.result.success
           /\ mail.result.error # ""

\* a decline with a white-space reason has been rejected locally
C17_Witness ==
    /\ mail.pc = "done"
    /\ mail.newStatus = "declined"
    /\ mail.booking # NullBooking
    /\ "decline_reason" \in DOMAIN mail.booking
    /\ mail.booking.decline_reason = <<" ">>
    /\ mail.invocations = 0
    /\ ~mail.result.success

\* C18: a transition to completed is not emailed: the remote procedure is
\* invoked only for the new statuses confirmed, declined and cancelled.
C18_CompletedNotEmailed ==
    mail.invocations > 0 => mail.newStatus \in {"confirmed", "declined", "cancelled"}

\* C19: a call invokes the remote procedure at most once and ends with
\* {success: true} or {success: false, error}: a rejection, a result without
\* success and an error thrown while building the payload all become
\* {success: false, error}, and nothing is thrown to the caller.
C19_OneInvocationNoThrow ==
    /\ mail.invocations <= 1
    /\ ~mail.threw
    /\ mail.pc = "done" =>
          /\ mail.result # NoData
          /\ IF mail.result.success
             THEN /\ DOMAIN mail.result = {"success", "message"}
                  /\ mail.invocations = 1
                  /\ ~mail.response.rejected /\ mail.response.success
             ELSE /\ DOMAIN mail.result = {"success", "error"}
                  /\ mail.result.error # ""
          /\ (mail.response # NoData /\ (mail.response.rejected \/ ~mail.response.success))
                => ~mail.result.success

\* a call whose remote invocation was rejected has ended with {success: false, error}
C19_Witness ==
    /\ mail.pc = "done"
    /\ mail.invocations = 1
    /\ mail.response # NoData
    /\ mail.response.rejected
    /\ ~mail.threw
    /\ ~mail.result.success

(* ------------------------------------------------------------------------ *)
\* the payload of the last createAppUser call lacks email, password or role
MissingRequired ==
    \E k \in {"email", "password", "role"} : fn.data[k] \in {Undefined, Null, ""}

\* C20: createAppUser rejects with unauthenticated when the caller has no auth
\* context, whatever the payload, and with invalid-argument when an
\* authenticated caller's payload lacks email, password or role; a call that
\* ends with either creates no auth identity and no app_users record.
C20_CreateRejects ==
    fn.code # "none" =>
        /\ (fn.auth = Null) <=> (fn.code = "unauthenticated")
        /\ (fn.auth # Null /\ MissingRequired) <=> (fn.code = "invalid-argument")
        /\ fn.code \in {"unauthenticated", "invalid-argument"}
              => /\ DOMAIN fn.identities = fn.preIdentities
                 /\ db.app_users = fn.preUsers

\* a call without auth context and without email has been rejected with
\* unauthenticated
C20_Witness ==
    /\ fn.code = "unauthenticated"
    /\ fn.auth = Null
    /\ fn.data.email = ""
    /\ DOMAIN fn.identities = fn.preIdentities

(* ------------------------------------------------------------------------ *)
\* the app_users records written by createAppUser
CreatedUsers == (DOMAIN db.app_users) \ (DOMAIN SeedDb.app_users)

\* C21: app_users records are created by an owner only: a createAppUser call
\* succeeds only when its caller's role is owner, and every record it has
\* written has a role among owner, admin, driver and an owner_uid that is the
\* uid of an owner account, never that of an admin or a driver.
C21_OwnerOnlyCreate ==
    /\ fn.code = "ok" => fn.preUsers[fn.auth].role = "owner"
    /\ \A u \in CreatedUsers :
          /\ db.app_users[u].role \in Roles
          /\ db.app_users[u].owner_uid \in DOMAIN db.app_users
          /\ db.app_users[db.app_users[u].owner_uid].role = "owner"

\* C22: appUsersService.update(uid, data) is denied and changes nothing unless
\* the role of the session is owner and the target's owner_uid is the
\* effective owner id; a permitted call, whatever data it is given, leaves the
\* target's role and owner_uid as they were.
C22_AppUserUpdate ==
    (last.svc = "appUsers" /\ last.op = "update")
        => IF /\ ~requireOwnerIdThrows
              /\ role = "owner"
              /\ last.key \in DOMAIN last.pre.app_users
              /\ last.pre.app_users[last.key].owner_uid = CallOwnerId
           THEN /\ last.err = ""
                /\ db.app_users[last.key].role = last.pre.app_users[last.key].role
                /\ db.app_users[last.key].owner_uid = last.pre.app_users[last.key].owner_uid
           ELSE last.err # "" /\ db = last.pre

(* ------------------------------------------------------------------------ *)
\* the session's tenancy cache holds the signed-in user's tenant and role
CacheCoherent ==
    /\ currentUser # Null
    /\ effectiveOwnerId = getCurrentAppUser.owner_uid
    /\ role = getCurrentAppUser.role

\* C23: settings are one record per tenant, written by owners only.  An upsert
\* by a signed-in admin or driver fails and changes nothing; an upsert that
\* succeeds changes only the settings record keyed by the caller's effective
\* owner id, which takes the fields given; get returns the record of the
\* caller's tenant, or {fuel_price_per_liter: 0, delay_fee_per_hour: 0} when
\* the tenant has none.
C23_SettingsPerTenant ==
    /\ (last.svc = "systemSettings" /\ last.op = "upsert" /\ currentUser # Null)
          => IF getCurrentAppUser.role \in {"admin", "driver"}
             THEN last.err # "" /\ db = last.pre
             ELSE last.err = ""
                  => /\ \A c \in DOMAIN db : c # "system_settings" => db[c] = last.pre[c]
                     /\ DOMAIN db.system_settings =
                            (DOMAIN last.pre.system_settings) \cup {CallOwnerId}
                     /\ \A t \in DOMAIN last.pre.system_settings :
                            t # CallOwnerId
                                => db.system_settings[t] = last.pre.system_settings[t]
                     /\ \A k \in DOMAIN last.data :
                            db.system_settings[CallOwnerId][k] = last.data[k]
    /\ (last.svc = "systemSettings" /\ last.op = "get" /\ last.err = "")
          => last.ret =
                 IF CallOwnerId \in DOMAIN db.system_settings
                 THEN {fromFirestore(CallOwnerId, db.system_settings[CallOwnerId])}
                 ELSE {[fuel_price_per_liter |-> 0, delay_fee_per_hour |-> 0]}

(* ------------------------------------------------------------------------ *)
\* C24: every stored booking's status is one of pending, confirmed, completed,
\* cancelled, declined, also after the driver's start-trip and complete-trip
\* submissions have been written with bookingsService.update.
C24_BookingStatus ==
    \A i \in DOMAIN db.bookings :
        db.bookings[i].status \in {"pending", "confirmed", "completed", "cancelled", "declined"}

(* ------------------------------------------------------------------------ *)
\* the AppUser record of the signed-in user in the store the call started from
CallerRecord == last.pre.app_users[currentUser]

\* C25: whenever an operation of the record access layer has executed with a
\* signed-in user U that has an AppUser record, the effective owner id and the
\* role it used are the owner_uid and the role of that record: an admin or
\* driver is never treated as an owner of its own tenant before the cache is
\* loaded or after it was reset, and after another user signed in no operation
\* runs against the tenant cached before.
C25_CacheCoherence ==
    (/\ last.op # "idle"
     /\ last.svc \in TenantServices
     /\ currentUser # Null
     /\ currentUser \in DOMAIN last.pre.app_users)
        => /\ requireOwnerId = CallerRecord.owner_uid
           /\ getRoleSync = CallerRecord.role

(* ------------------------------------------------------------------------ *)
\* the vehicle and variant records embedded in the results of a joined read
Embedded ==
    {r[k] : <<r, k>> \in {<<r, k>> \in last.ret \X {"vehicles", "vehicle_variants"} :
                              k \in DOMAIN r /\ r[k] # NullDoc}}

JoinedReads == {"listWithVehicles", "listAvailableWithVehicles", "listWithDetails"}

\* C26: every vehicle or variant record embedded in a result of
\* listWithDetails, listWithVehicles or listAvailableWithVehicles belongs to
\* the caller's tenant, also when the booking or variant it is attached to
\* names a record of another tenant.
C26_JoinedReadsIsolated ==
    (last.op \in JoinedReads /\ last.err = "")
        => \A e \in Embedded : e.user_id = requireOwnerId

(* ------------------------------------------------------------------------ *)
\* the auth identities created by createAppUser calls
CreatedIdentities == (DOMAIN fn.identities) \ (DOMAIN NoFunctionCall.identities)

\* C27: createAppUser is atomic over its two writes: after a call has ended,
\* with success or with an error, an identity it created exists exactly when
\* its app_users record exists, so no created identity is resolved by
\* getCurrentAppUser through the owner defaults of the no-record fallback.
C27_CreateAtomic ==
    fn.code # "none" => CreatedIdentities = CreatedUsers

(* ------------------------------------------------------------------------ *)
\* C28: ensureOwnerAppUser never modifies an existing AppUser record: under
\* every interleaving with createAppUser, a record createAppUser has written
\* keeps the role and owner_uid createAppUser gave it, and the owner defaults
\* are never stored for a uid whose record createAppUser creates.
C28_EnsureKeepsRecord ==
    \A u \in DOMAIN fn.written :
        /\ db.app_users[u].role = fn.written[u].role
        /\ db.app_users[u].owner_uid = fn.written[u].owner_uid
        /\ u \notin fn.ensureWrote

(* ------------------------------------------------------------------------ *)
\* C29: find-or-create keeps its records unique: there is at most one
\* website_content record per tenant and section and at most one gallery record
\* per tenant, for every sequence and interleaving of upsert and
\* getOrCreateGallery calls of sessions of one tenant.
C29_FindOrCreateUnique ==
    /\ \A i, j \in DOMAIN db.website_content :
          (/\ db.website_content[i].user_id = db.website_content[j].user_id
           /\ db.website_content[i].section = db.website_content[j].section) => i = j
    /\ \A i, j \in DOMAIN db.gallery :
          db.gallery[i].user_id = db.gallery[j].user_id => i = j

(* ------------------------------------------------------------------------ *)
\* the SystemSettings record stored for the tenant of the session
PersistedSettings == systemSettings(requireOwnerId)

\* C30: the fuel_charge and delay_fee of a completion payload are computed with
\* the rates stored for the tenant, also when the driver submits before the
\* settings load started on opening the modal has resolved, or after it failed.
C30_PersistedRates ==
    Completed =>
        /\ Submitted.fuel_charge =
               fuelCharge(StartFuel, Submitted.end_fuel, PersistedSettings.fuel_price_per_liter)
        /\ Submitted.delay_fee =
               Times(Submitted.delay_hours, PersistedSettings.delay_fee_per_hour)

=============================================================================
